---- MODULE Spec2Model ----
(***************************************************************************)
(* Model of the recipe recommendation service, the recommendation hook and *)
(* the meal-plan provider of mealmate-app.                                 *)
(*                                                                         *)
(* Scores are JavaScript numbers in the source.  The model keeps them as   *)
(* integers in thousandths: 1.0 is 1000, 0.5 is 500 and the 0.01 of the    *)
(* sort comparator is 10.  Every weight used below is a whole number of    *)
(* thousandths, so sums and comparisons are exact.                         *)
(*                                                                         *)
(* Recipe ids, tag ids and meal ids are strings in the source and small    *)
(* naturals here; only their equality is ever used.                        *)
(***************************************************************************)
EXTENDS Integers, Sequences, FiniteSets, TLC

(***************************************************************************)
(* Bounds of the model                                                     *)
(***************************************************************************)
\* number of recipes of the catalog
NRecipes == 3
\* largest count asked of getRecommendations is NRecipes + CountSlack
CountSlack == 1
\* longest goal list, and most tag ids of a recipe or of the preferred tags,
\* of a scoreRecipe call
MaxGoals == 2
MaxTagIds == 2
\* meal ids the provider generates in one run
MaxMealIds == 2
\* backend calls of the provider that can be in flight at once
MaxPending == 1
\* provider operations that can run between two renders
MaxBatch == 2

\* fetch calls the data providers make in one run
MaxFetches == 3
\* backend calls in flight at once where overlapping calls are followed
MaxOverlap == 2

\* loadMealPlanForWeek calls of the screen awaiting their answer at a time
MaxScreenLoads == 3
\* the users that sign in
MaxUsers == 2
\* calls of the preferences provider awaiting the backend at a time
MaxPrefsCalls == 2

(***************************************************************************)
(* Generic helpers on arrays                                               *)
(***************************************************************************)
Range(s) == { s[i] : i \in DOMAIN s }

Includes(s, x) == \E i \in DOMAIN s : s[i] = x

\* Array.prototype.slice(0, n) for n >= 0
Slice(s, n) == SubSeq(s, 1, IF n < Len(s) THEN n ELSE Len(s))

\* Array.prototype.map with the field id
Ids(s) == [ i \in DOMAIN s |-> s[i].id ]

InsertAt(s, p, x) == SubSeq(s, 1, p) \o <<x>> \o SubSeq(s, p + 1, Len(s))

Distinct(s) == \A i, j \in DOMAIN s : i # j => s[i] # s[j]

Min(a, b) == IF a < b THEN a ELSE b

Abs(a) == IF a < 0 THEN 0 - a ELSE a

(***************************************************************************)
(* Reference data: the tag taxonomy (Tag: id, type)                        *)
(***************************************************************************)
TagList ==
    << [id |-> 1, type |-> "time"],
       [id |-> 2, type |-> "budget"],
       [id |-> 3, type |-> "cuisine"] >>

\* the value of a preferences object that is not loaded
Null == [null |-> TRUE]

(***************************************************************************)
(* recipe-recommendation-service.ts                                        *)
(***************************************************************************)
DEFAULT_CONFIG ==
    [ weights |-> [ preferenceTag |-> 1000,
                    goalAlignment |-> 2000,
                    diversity     |-> 500,
                    recency       |-> 0 - 500 ],
      diversityTagTypes |-> << "cuisine", "protein" >>,
      recencyWindowDays |-> 7,
      minimumScore |-> 0 ]

\* Math.abs(a.score - b.score) < 0.01
TieThreshold == 10

\* preferences.user_preference_tags?.find((pref) => pref.tag_id === tagId)
IsPreferredTag(preferences, tagId) ==
    \E i \in DOMAIN preferences.user_preference_tags :
        preferences.user_preference_tags[i].tag_id = tagId

\* 1. the recipe's tag ids that are preferred, in the recipe's order
MatchedTagIds(recipe, preferences) ==
    SelectSeq(recipe.tagIds, LAMBDA t : IsPreferredTag(preferences, t))

\* tags.filter((tag) => recipe.tagIds?.includes(tag.id))
RecipeTags(recipe, tags) ==
    SelectSeq(tags, LAMBDA tag : Includes(recipe.tagIds, tag.id))

\* recipeTags.filter((tag) => tag.type === goalType).length > 0
GoalMatches(recipeTags, goalType) ==
    \E i \in DOMAIN recipeTags : recipeTags[i].type = goalType

\* a variant that weighs a goal by its position: later goals weigh more
GoalPriority_ByPosition(goals, i) == i

\* priority of the goal at 1-based position i: user_goals.length - index
GoalPriority(goals, i) == Len(goals) - (i - 1)

\* 2. forEach over user_goals from position i on, accumulating goalAlignment
RECURSIVE GoalAlignmentFrom(_, _, _, _)
GoalAlignmentFrom(goals, recipeTags, i, weight) ==
    IF i > Len(goals) THEN 0
    ELSE (IF GoalMatches(recipeTags, goals[i])
             THEN GoalPriority(goals, i) * weight
             ELSE 0)
         + GoalAlignmentFrom(goals, recipeTags, i + 1, weight)

GoalAlignment(recipe, preferences, tags, config) ==
    IF Len(preferences.user_goals) > 0 /\ Len(tags) > 0
       THEN GoalAlignmentFrom(preferences.user_goals, RecipeTags(recipe, tags),
                              1, config.weights.goalAlignment)
       ELSE 0

MatchedGoals(recipe, preferences, tags) ==
    IF Len(preferences.user_goals) > 0 /\ Len(tags) > 0
       THEN SelectSeq(preferences.user_goals,
                      LAMBDA g : GoalMatches(RecipeTags(recipe, tags), g))
       ELSE << >>

calculateDiversityBonus(recipe, currentMealPlanRecipeIds, tags, config) ==
    IF Len(recipe.tagIds) = 0 \/ Len(config.diversityTagTypes) = 0
       THEN 0
       ELSE config.weights.diversity

\* a variant that subtracts the weight for each matched tag
PreferenceTagMatches_Subtracting(matchedTagIds, config) ==
    0 - Len(matchedTagIds) * config.weights.preferenceTag

\* preferenceTagMatches += weights.preferenceTag, once per matched tag id
PreferenceTagMatches(matchedTagIds, config) ==
    Len(matchedTagIds) * config.weights.preferenceTag

\* a variant that leaves the recency term out of the total
TotalScore_WithoutRecency(preferenceTag, goal, diversity, recency) ==
    preferenceTag + goal + diversity

\* scoreBreakdown.total
TotalScore(preferenceTag, goal, diversity, recency) ==
    preferenceTag + goal + diversity + recency

scoreRecipe(recipe, preferences, tags, context, config) ==
    LET matchedTagIds == MatchedTagIds(recipe, preferences)
        preferenceTagMatches == PreferenceTagMatches(matchedTagIds, config)
        goalAlignment == GoalAlignment(recipe, preferences, tags, config)
        diversityBonus ==
            IF Len(context.currentMealPlanRecipeIds) > 0
               THEN calculateDiversityBonus(recipe,
                        context.currentMealPlanRecipeIds, tags, config)
               ELSE 0
        recencyPenalty ==
            IF Includes(context.recentRecipeIds, recipe.id)
               THEN config.weights.recency
               ELSE 0
        total == TotalScore(preferenceTagMatches, goalAlignment,
                            diversityBonus, recencyPenalty)
    IN  [ id |-> recipe.id,
          tagIds |-> recipe.tagIds,
          default_servings |-> recipe.default_servings,
          score |-> total,
          scoreBreakdown |->
              [ preferenceTagMatches |-> preferenceTagMatches,
                goalAlignment |-> goalAlignment,
                diversityBonus |-> diversityBonus,
                recencyPenalty |-> recencyPenalty,
                total |-> total ],
          matchedTagIds |-> matchedTagIds,
          matchedGoals |-> MatchedGoals(recipe, preferences, tags) ]

(***************************************************************************)
(* Array.prototype.sort(comparefn).  Both comparators of the service       *)
(* answer Math.random() - 0.5 for some pairs, so they are not consistent   *)
(* comparators and the resulting order is implementation-defined           *)
(* (ECMA-262, Array.prototype.sort).  The model takes the insertion sort   *)
(* engines run on short arrays and lets every such comparison return a     *)
(* negative, a zero or a positive number: SortOutcomes is the set of       *)
(* arrays the sort can leave.                                              *)
(***************************************************************************)
Sign(n) == IF n < 0 THEN 0 - 1 ELSE IF n > 0 THEN 1 ELSE 0

\* the signs Math.random() - 0.5 can have
RandomSigns == { 0 - 1, 0, 1 }

\* comparefn of getRecommendations: the signs comparefn(a, b) can return
CompareScored(a, b) ==
    IF Abs(a.score - b.score) < TieThreshold
       THEN RandomSigns
       ELSE { Sign(b.score - a.score) }

\* comparefn of getRandomRecommendations
CompareRandom(a, b) == RandomSigns

Compare(cmp, a, b) ==
    IF cmp = "score" THEN CompareScored(a, b) ELSE CompareRandom(a, b)

\* x is inserted into the sorted prefix s, moving left past s[j] while
\* comparefn(s[j], x) > 0
InsertOutcomes(s, x, cmp) ==
    { InsertAt(s, p, x) :
        p \in { q \in 0..Len(s) :
                  /\ \A j \in (q + 1)..Len(s) : 1 \in Compare(cmp, s[j], x)
                  /\ q = 0 \/ \E c \in Compare(cmp, s[q], x) : c <= 0 } }

RECURSIVE SortPrefix(_, _, _)
SortPrefix(s, n, cmp) ==
    IF n = 0 THEN { << >> }
    ELSE UNION { InsertOutcomes(t, s[n], cmp) : t \in SortPrefix(s, n - 1, cmp) }

SortOutcomes(s, cmp) == SortPrefix(s, Len(s), cmp)

\* Math.random() - 0.5 is positive for half the values of Math.random().  An
\* insertion into a sorted prefix of m elements makes at most m comparisons:
\* of their 2^m equally likely outcomes, the number that leave q elements to
\* the left of the element inserted
InsertWeight(m, q) == IF q = 0 THEN 1 ELSE 2 ^ (q - 1)

\* of the equally likely outcomes of the comparisons of
\* s.sort(() => Math.random() - 0.5), the number that leave the array r (s
\* has no element twice, r is a permutation of s)
RECURSIVE ShuffleWeight(_, _)
ShuffleWeight(s, r) ==
    IF Len(s) = 0 THEN 1
    ELSE LET n == Len(s)
             p == CHOOSE i \in 1..n : r[i] = s[n]
         IN  InsertWeight(n - 1, p - 1)
               * ShuffleWeight(SubSeq(s, 1, n - 1),
                               SubSeq(r, 1, p - 1) \o SubSeq(r, p + 1, n))

RECURSIVE SumOfShuffleWeights(_, _)
SumOfShuffleWeights(s, arrays) ==
    IF arrays = { } THEN 0
    ELSE LET r == CHOOSE a \in arrays : TRUE
         IN  ShuffleWeight(s, r) + SumOfShuffleWeights(s, arrays \ { r })

\* the number of those outcomes after which shuffled.slice(0, count) is the
\* sample
SampleWeight(s, count, sample) ==
    SumOfShuffleWeights(s,
        { r \in SortOutcomes(s, "random") : Slice(r, count) = sample })

(***************************************************************************)
(* RecipeRecommendationService.getRecommendations, stage by stage          *)
(***************************************************************************)
\* recipes.filter((r) => !excludeRecipeIds.includes(r.id))
FilterExcluded(recipes, excludeRecipeIds) ==
    SelectSeq(recipes, LAMBDA r : ~Includes(excludeRecipeIds, r.id))

\* a variant that skips the exclusion filter
availableRecipes_Unfiltered(recipes, options) == recipes

availableRecipes(recipes, options) ==
    IF Len(options.excludeRecipeIds) > 0
       THEN FilterExcluded(recipes, options.excludeRecipeIds)
       ELSE recipes

scoredRecipes(recipes, preferences, tags, options, config) ==
    LET available == availableRecipes(recipes, options)
    IN  [ i \in DOMAIN available |->
            scoreRecipe(available[i], preferences, tags,
                [ recentRecipeIds |-> options.recentRecipeIds,
                  currentMealPlanRecipeIds |-> options.currentMealPlanRecipeIds ],
                config) ]

validRecipes(recipes, preferences, tags, options, config) ==
    SelectSeq(scoredRecipes(recipes, preferences, tags, options, config),
              LAMBDA r : r.score >= config.minimumScore)

\* a variant that returns the whole sorted array
serviceGetRecommendations_Unsliced(recipes, preferences, tags, options, config) ==
    SortOutcomes(validRecipes(recipes, preferences, tags, options, config),
                 "score")

\* the set of arrays the method can return
serviceGetRecommendations(recipes, preferences, tags, options, config) ==
    { Slice(sorted, options.count) :
        sorted \in SortOutcomes(
            validRecipes(recipes, preferences, tags, options, config), "score") }

getRandomRecommendations(recipes, count, excludeRecipeIds) ==
    { Slice(shuffled, count) :
        shuffled \in SortOutcomes(FilterExcluded(recipes, excludeRecipeIds),
                                  "random") }

(***************************************************************************)
(* use-recipe-recommendation.ts                                            *)
(***************************************************************************)
\* the ScoredRecipe the hook builds for a randomly selected recipe
ZeroScored(r) ==
    [ id |-> r.id,
      tagIds |-> r.tagIds,
      default_servings |-> r.default_servings,
      score |-> 0,
      scoreBreakdown |->
          [ preferenceTagMatches |-> 0, goalAlignment |-> 0,
            diversityBonus |-> 0, recencyPenalty |-> 0, total |-> 0 ],
      matchedTagIds |-> << >>,
      matchedGoals |-> << >> ]

\* !preferences.user_preference_tags?.length && !preferences.user_goals?.length
NoPreferences(preferences) ==
    /\ Len(preferences.user_preference_tags) = 0
    /\ Len(preferences.user_goals) = 0

\* which branch of the hook's getRecommendations a call takes
RecommendationPath(recipes, preferences) ==
    IF Len(recipes) = 0 \/ preferences = Null THEN "empty"
    ELSE IF NoPreferences(preferences) THEN "random"
    ELSE "scored"

\* a variant without the random branch
getRecommendations_AlwaysScored(recipes, preferences, tags, options, config) ==
    IF RecommendationPath(recipes, preferences) = "empty"
       THEN { << >> }
       ELSE serviceGetRecommendations(recipes, preferences, tags, options, config)

\* the set of arrays the hook's getRecommendations can return
getRecommendations(recipes, preferences, tags, options, config) ==
    IF RecommendationPath(recipes, preferences) = "empty"
       THEN { << >> }
    ELSE IF RecommendationPath(recipes, preferences) = "random"
       THEN { [ i \in DOMAIN random |-> ZeroScored(random[i]) ] :
                random \in getRandomRecommendations(recipes, options.count,
                                                    options.excludeRecipeIds) }
    ELSE serviceGetRecommendations(recipes, preferences, tags, options, config)

\* the recipes a call hands to scoreRecipe, in order
ScoredByCall(recipes, preferences, tags, options, config) ==
    IF RecommendationPath(recipes, preferences) = "scored"
       THEN Ids(scoredRecipes(recipes, preferences, tags, options, config))
       ELSE << >>

\* the recipes a call keeps as candidates after the exclusion filter
CandidatesOfCall(recipes, preferences, options) ==
    IF RecommendationPath(recipes, preferences) = "empty" THEN << >>
    ELSE IF RecommendationPath(recipes, preferences) = "random"
       THEN Ids(FilterExcluded(recipes, options.excludeRecipeIds))
    ELSE Ids(availableRecipes(recipes, options))

\* the recipes that reach the ranking step (the sort) of a call
RankedByCall(recipes, preferences, tags, options, config) ==
    IF RecommendationPath(recipes, preferences) = "empty" THEN << >>
    ELSE IF RecommendationPath(recipes, preferences) = "random"
       THEN Ids(FilterExcluded(recipes, options.excludeRecipeIds))
    ELSE Ids(validRecipes(recipes, preferences, tags, options, config))

(***************************************************************************)
(* State                                                                   *)
(***************************************************************************)
VARIABLES
    \* a call of the hook's getRecommendations: its arguments (with the
    \* catalog, the taxonomy and the service's config it reads), the recipes
    \* it kept as candidates, scored and ranked, and what it returned
    recCall, recCandidates, recScored, recRanked, recResult, recDone,
    \* calls of scoreRecipe: the arguments, the value returned by a first and
    \* by a second call with them, and by a call with one preferred tag
    \* added to the recipe
    scoreCall, scoreFirst, scoreSecond, scoreAdded,
    \* MealPlanProvider: its four useState values
    currentMealPlan, loading, error, initialized,
    \* the values of the other providers it reads
    recipes, userPreferences,
    \* the values its callbacks closed over at the last render
    rendered,
    \* the week's rows at the persistence backend, and the backend calls
    \* awaiting their response, each with the closure of its caller
    backend, pending,
    \* the number generateMealId's next id is made of
    nextMealId,
    \* the number of provider operations run since the last render
    batch,
    \* the provider operation run last: addMealToPlan with its recipe id,
    \* or another one
    lastOp,
    \* the data providers (reference data, weeks, recipes, preferences): the
    \* useState values of each, its fetch calls in flight and what its
    \* effect saw last; the number of fetch calls made so far; the fetch
    \* step taken last
    fetch, fetchesIssued, lastFetch,
    \* MealPlannerScreen: whether it is mounted, its selectedMeals and
    \* hasChanges, and whether its effects have run with the array that
    \* currentMealPlan holds
    screen,
    \* UserPreferencesProvider: the user id of the session (0: nobody is
    \* signed in); the provider's useState values, with the dependencies
    \* its effects ran with last and the step it took last; its calls
    \* awaiting the backend; and the rows of the user_preferences and
    \* user_preference_tags tables
    session, prefsState, prefsCalls, prefsStore

recVars == << recCall, recCandidates, recScored, recRanked, recResult, recDone >>

scoreVars == << scoreCall, scoreFirst, scoreSecond, scoreAdded >>

planVars ==
    << currentMealPlan, loading, error, initialized, recipes, userPreferences,
       rendered, backend, pending, nextMealId, batch, lastOp >>

fetchVars == << fetch, fetchesIssued, lastFetch >>

screenVars == << screen >>

prefsVars == << session, prefsState, prefsCalls, prefsStore >>

vars == << recVars, scoreVars, planVars, fetchVars, screenVars, prefsVars >>

(***************************************************************************)
(* Inputs of the recommendation calls                                      *)
(***************************************************************************)
RecipeIds == 1..NRecipes

\* tagIds of a catalog recipe
TagIdChoices == { << >>, << 1 >>, << 1, 2 >>, << 3 >> }

\* the catalogs: recipe i has id i; and the catalog that is not loaded yet
Catalogs ==
    { [ i \in RecipeIds |->
          [ id |-> i, tagIds |-> t[i], default_servings |-> 2 ] ] :
        t \in [ RecipeIds -> TagIdChoices ] }
    \cup { << >> }

\* user_preference_tags rows: priority is the index
PreferenceTags(tagIds) ==
    [ i \in DOMAIN tagIds |-> [ tag_id |-> tagIds[i], priority |-> i - 1 ] ]

Preferences(goals, tagIds) ==
    [ meals_per_week |-> 4, serves_per_meal |-> 2,
      user_goals |-> goals,
      user_preference_tags |-> PreferenceTags(tagIds) ]

GoalChoices == { << >>, << "time" >>, << "time", "budget" >> }

PreferenceChoices ==
    { Preferences(g, t) : g \in GoalChoices, t \in { << >>, << 1 >>, << 1, 2 >> } }
    \cup { Null }

\* a service constructed with weights.preferenceTag 0.006: recipes matching
\* 0, 1 and 2 preferred tags score 0, 0.006 and 0.012
FineConfig ==
    [ DEFAULT_CONFIG EXCEPT !.weights.preferenceTag = 6 ]

Configs == { DEFAULT_CONFIG, FineConfig }

\* excludeRecipeIds; generateInitialMealPlan passes the same array as
\* currentMealPlanRecipeIds
ExcludeChoices == { << >>, << 1 >>, << 2, 3 >> }

RecentChoices == { << >>, << 1 >> }

RecOptions ==
    [ count : 0..(NRecipes + CountSlack),
      excludeRecipeIds : ExcludeChoices,
      recentRecipeIds : RecentChoices ]

RecCalls ==
    [ recipes : Catalogs,
      preferences : PreferenceChoices,
      tags : { TagList },
      options : RecOptions,
      config : Configs ]

\* the options object of a call
OptionsOf(call) ==
    [ count |-> call.options.count,
      excludeRecipeIds |-> call.options.excludeRecipeIds,
      recentRecipeIds |-> call.options.recentRecipeIds,
      currentMealPlanRecipeIds |-> call.options.excludeRecipeIds ]

RecIdle ==
    /\ recCall = [ recipes |-> << >>, preferences |-> Null, tags |-> TagList,
                   options |-> [ count |-> 0, excludeRecipeIds |-> << >>,
                                 recentRecipeIds |-> << >> ],
                   config |-> DEFAULT_CONFIG ]
    /\ recCandidates = << >>
    /\ recScored = << >>
    /\ recRanked = << >>
    /\ recResult = << >>
    /\ recDone = FALSE

ScoreIdle ==
    /\ scoreCall = Null
    /\ scoreFirst = Null
    /\ scoreSecond = Null
    /\ scoreAdded = Null

\* no meal id
NoMeal == << "none", 0 >>

\* the last operation of the provider that was called or answered, with the
\* recipe, meal id and servings it was given
Op(name, recipe, mealId, servings) ==
    [ name |-> name, recipe |-> recipe, mealId |-> mealId, servings |-> servings ]

OtherOp == Op("other", 0, NoMeal, 0)

\* the data providers
Providers == { "reference", "weeks", "recipes", "preferences" }

\* the data providers as constructed: useState initial values, no effect run
DataProvidersConstructed ==
    /\ fetch = [ p \in Providers |->
                   [ loading |-> FALSE, error |-> FALSE, initialized |-> FALSE,
                     inFlight |-> 0, failed |-> FALSE, mounted |-> FALSE,
                     effectSeen |-> << FALSE, FALSE >> ] ]
    /\ fetchesIssued = 0
    /\ lastFetch = [ provider |-> "none", by |-> "none", afterFailure |-> FALSE ]

\* the meal-planner screen is not open
ScreenNotMounted ==
    screen = [ mounted |-> FALSE, selectedMeals |-> << >>, hasChanges |-> FALSE,
               planSeen |-> FALSE ]

\* the preferences provider as constructed, nobody signed in, and no row in
\* its tables
PreferencesProviderConstructed ==
    /\ session = 0
    /\ prefsState = [ preferences |-> Null, loading |-> FALSE, error |-> FALSE,
                      initialized |-> FALSE,
                      seen |-> << 0, FALSE, Null >>, last |-> "none" ]
    /\ prefsCalls = << >>
    /\ prefsStore = [ user_preferences |-> { }, user_preference_tags |-> { } ]

\* the meal plan provider as constructed: useState initial values, nothing
\* fetched
MealPlanProviderConstructed ==
    /\ currentMealPlan = << >>
    /\ loading = FALSE
    /\ error = "null"
    /\ initialized = FALSE
    /\ recipes = << >>
    /\ userPreferences = Null
    /\ rendered = [ currentMealPlan |-> << >>, userPreferences |-> Null,
                    recipes |-> << >>, initialized |-> FALSE ]
    /\ pending = << >>
    /\ nextMealId = 1
    /\ batch = 0
    /\ lastOp = OtherOp

\* the providers as constructed, the meal-planner screen not open
ProviderConstructed ==
    /\ DataProvidersConstructed
    /\ MealPlanProviderConstructed
    /\ ScreenNotMounted
    /\ PreferencesProviderConstructed

PlanIdle ==
    /\ ProviderConstructed
    /\ backend = << >>

(***************************************************************************)
(* The hook's getRecommendations as one step                               *)
(***************************************************************************)
InitRec ==
    /\ recCall \in RecCalls
    /\ recCandidates = << >>
    /\ recScored = << >>
    /\ recRanked = << >>
    /\ recResult = << >>
    /\ recDone = FALSE
    /\ ScoreIdle
    /\ PlanIdle

GetRecommendations ==
    /\ ~recDone
    /\ recResult' \in getRecommendations(recCall.recipes, recCall.preferences,
                          recCall.tags, OptionsOf(recCall), recCall.config)
    /\ recCandidates' = CandidatesOfCall(recCall.recipes, recCall.preferences,
                                         OptionsOf(recCall))
    /\ recScored' = ScoredByCall(recCall.recipes, recCall.preferences,
                          recCall.tags, OptionsOf(recCall), recCall.config)
    /\ recRanked' = RankedByCall(recCall.recipes, recCall.preferences,
                          recCall.tags, OptionsOf(recCall), recCall.config)
    /\ recDone' = TRUE
    /\ UNCHANGED << recCall, scoreVars, planVars, fetchVars,
                    screenVars, prefsVars >>

NextRec == GetRecommendations

SpecRec == InitRec /\ [][NextRec]_vars

(***************************************************************************)
(* scoreRecipe as steps: a first call, a second call with the same         *)
(* arguments, and a call with one preferred tag added to the recipe        *)
(***************************************************************************)
TagIdsOfTaxonomy == { TagList[i].id : i \in DOMAIN TagList }

TagTypes == { TagList[i].type : i \in DOMAIN TagList }

\* the arrays of at most n distinct elements of S
RECURSIVE DistinctSeqs(_, _)
DistinctSeqs(S, n) ==
    IF n = 0 THEN { << >> }
    ELSE LET shorter == DistinctSeqs(S, n - 1)
         IN  shorter \cup
             { Append(q, x) : q \in { r \in shorter : Len(r) = n - 1 },
                              x \in S }

TagIdLists == { q \in DistinctSeqs(TagIdsOfTaxonomy, MaxTagIds) : Distinct(q) }

GoalLists == { q \in DistinctSeqs(TagTypes, MaxGoals) : Distinct(q) }

ScoreCalls ==
    [ recipe : { [ id |-> 1, tagIds |-> t, default_servings |-> 2 ] :
                   t \in TagIdLists },
      preferences : { Preferences(g, t) : g \in GoalLists, t \in TagIdLists },
      tags : { TagList, << >> },
      context : [ recentRecipeIds : { << >>, << 1 >> },
                  currentMealPlanRecipeIds : { << >>, << 2 >> } ],
      config : Configs ]

InitScore ==
    /\ scoreCall \in ScoreCalls
    /\ scoreFirst = Null
    /\ scoreSecond = Null
    /\ scoreAdded = Null
    /\ RecIdle
    /\ PlanIdle

\* scoreRecipe(recipe, preferences, tags, context): it assigns only to the
\* objects it creates
ScoreRecipe ==
    /\ scoreFirst = Null
    /\ scoreFirst' = scoreRecipe(scoreCall.recipe, scoreCall.preferences,
                         scoreCall.tags, scoreCall.context, scoreCall.config)
    /\ UNCHANGED << scoreCall, scoreSecond, scoreAdded, recVars, planVars, fetchVars,
                    screenVars, prefsVars >>

ScoreAgain ==
    /\ scoreFirst # Null
    /\ scoreSecond = Null
    /\ scoreSecond' = scoreRecipe(scoreCall.recipe, scoreCall.preferences,
                          scoreCall.tags, scoreCall.context, scoreCall.config)
    /\ UNCHANGED << scoreCall, scoreFirst, scoreAdded, recVars, planVars, fetchVars,
                    screenVars, prefsVars >>

\* the recipe of the call with tag id t pushed to its tagIds
WithTag(recipe, t) == [ recipe EXCEPT !.tagIds = Append(@, t) ]

ScoreWithTagAdded(t) ==
    /\ scoreFirst # Null
    /\ scoreAdded = Null
    /\ IsPreferredTag(scoreCall.preferences, t)
    /\ scoreAdded' = scoreRecipe(WithTag(scoreCall.recipe, t),
                         scoreCall.preferences, scoreCall.tags,
                         scoreCall.context, scoreCall.config)
    /\ UNCHANGED << scoreCall, scoreFirst, scoreSecond, recVars, planVars, fetchVars,
                    screenVars, prefsVars >>

NextScore ==
    \/ ScoreRecipe
    \/ ScoreAgain
    \/ \E t \in TagIdsOfTaxonomy : ScoreWithTagAdded(t)

SpecScore == InitScore /\ [][NextScore]_vars

(***************************************************************************)
(* meal-plan-provider.tsx                                                  *)
(*                                                                         *)
(* A callback of the provider reads the state values of the render that    *)
(* created it (rendered), while setState updaters run on the latest state.  *)
(* State updates are applied to the state variables as they are queued;    *)
(* Render is the re-render that hands the consumers new callbacks and runs *)
(* the provider's effect.                                                  *)
(***************************************************************************)
\* the catalog the recipe provider fetches
ProviderCatalog ==
    [ i \in RecipeIds |->
        [ id |-> i,
          tagIds |-> IF i = 1 THEN << 1 >> ELSE << >>,
          default_servings |-> IF i = 2 THEN 0 ELSE 4 ] ]

\* preferences records the preferences provider can hold: one with a
\* preferred tag, one with neither tags nor goals and no serving size
TaggedPreferences ==
    [ Preferences(<< >>, << 1 >>) EXCEPT !.meals_per_week = 2 ]

BlankPreferences ==
    [ Preferences(<< >>, << >>) EXCEPT !.meals_per_week = 2,
                                       !.serves_per_meal = 0 ]

\* servings arguments; 0 stands for an omitted argument
ServingsArgs == { 0, 3 }

Statuses == { "draft", "confirmed", "completed" }

\* a || b on numbers
OrElse(a, b) == IF a # 0 THEN a ELSE b

\* `meal_${Date.now()}_${random}` and `saved_${item.id}`
MealId(n) == << "meal", n >>

SavedId(rowId) == << "saved", rowId >>

MealIds == { MealId(n) : n \in 1..MaxMealIds } \cup { SavedId(n) : n \in 1..MaxMealIds }

\* the ids of the meals the consumers of the last render have been given
RenderedMealIds ==
    { rendered.currentMealPlan[k].id : k \in DOMAIN rendered.currentMealPlan }

\* what the callbacks of the next render close over
Current ==
    [ currentMealPlan |-> currentMealPlan, userPreferences |-> userPreferences,
      recipes |-> recipes, initialized |-> initialized ]

RecipeIdsOf(plan) == [ i \in DOMAIN plan |-> plan[i].recipe.id ]

\* what generateInitialMealPlan reads of the render that created it: the
\* recipe ids of its currentMealPlan, its userPreferences and (through
\* getRecommendations) its recipes
GenerateClosure(closure) ==
    [ recipeIds |-> RecipeIdsOf(closure.currentMealPlan),
      userPreferences |-> closure.userPreferences,
      recipes |-> closure.recipes ]

\* the recipe fields a meal plan item is read for
RecipeOf(r) ==
    [ id |-> r.id, tagIds |-> r.tagIds, default_servings |-> r.default_servings ]

\* generateInitialMealPlan with preferences present: the plans it can set,
\* its ids starting at firstId
GeneratedPlans(closure, firstId) ==
    LET prefs == closure.userPreferences
    IN  { [ i \in DOMAIN recommendations |->
              [ id |-> MealId(firstId + i - 1),
                recipe |-> RecipeOf(recommendations[i]),
                servings |-> OrElse(prefs.serves_per_meal,
                                OrElse(recommendations[i].default_servings, 1)),
                status |-> "none" ] ] :
            recommendations \in getRecommendations(closure.recipes, prefs,
                TagList,
                [ count |-> prefs.meals_per_week,
                  excludeRecipeIds |-> closure.recipeIds,
                  recentRecipeIds |-> << >>,
                  currentMealPlanRecipeIds |-> closure.recipeIds ],
                DEFAULT_CONFIG) }

\* a variant that appends the items to the plan
GenerateWithPreferences_Appending(closure) ==
    \E items \in GeneratedPlans(closure, nextMealId) :
        /\ nextMealId + Len(items) <= MaxMealIds + 1
        /\ currentMealPlan' = currentMealPlan \o items
        /\ error' = "null"
        /\ initialized' = TRUE
        /\ nextMealId' = nextMealId + Len(items)

\* generateInitialMealPlan past its guard: the plan is replaced by the items
\* made of the recommendations
GenerateWithPreferences(closure) ==
    \E items \in GeneratedPlans(closure, nextMealId) :
        /\ nextMealId + Len(items) <= MaxMealIds + 1
        /\ currentMealPlan' = items
        /\ error' = "null"
        /\ initialized' = TRUE
        /\ nextMealId' = nextMealId + Len(items)

\* a variant without the guard on absent preferences: nothing is recommended
\* and the empty result is set as the plan
Generate_WithoutPreferencesGuard(closure, cleared) ==
    IF closure.userPreferences = Null
       THEN /\ currentMealPlan' = << >>
            /\ error' = "null"
            /\ initialized' = TRUE
            /\ UNCHANGED nextMealId
       ELSE GenerateWithPreferences(closure)

\* the state updates of generateInitialMealPlan run with this closure;
\* cleared: the caller has set the plan to [] before
Generate(closure, cleared) ==
    IF closure.userPreferences = Null
       THEN /\ currentMealPlan' = IF cleared THEN << >> ELSE currentMealPlan
            /\ UNCHANGED << error, initialized, nextMealId >>
       ELSE GenerateWithPreferences(closure)

\* the provider's effect: generate once recipes and preferences are there
InitEffectRuns(closure) ==
    /\ Len(closure.recipes) > 0
    /\ closure.userPreferences # Null
    /\ ~closure.initialized

Render ==
    /\ rendered # Current
    /\ rendered' = Current
    /\ UNCHANGED << recVars, scoreVars, fetchVars, screenVars, prefsVars >>
    /\ IF InitEffectRuns(Current)
          THEN /\ Generate(GenerateClosure(Current), FALSE)
               /\ loading' = FALSE
               /\ lastOp' = Op("generate", 0, NoMeal, 0)
               /\ batch' = 1
          ELSE /\ batch' = 0
               /\ UNCHANGED << currentMealPlan, loading, error, initialized,
                               nextMealId, lastOp >>
    /\ UNCHANGED << recipes, userPreferences, backend, pending >>

RecipesFetched(catalog) ==
    /\ recipes = << >>
    /\ recipes' = catalog
    /\ UNCHANGED << recVars, scoreVars, fetchVars, screenVars, prefsVars >>
    /\ UNCHANGED << currentMealPlan, loading, error, initialized,
                    userPreferences, rendered, backend, pending, nextMealId,
                    batch, lastOp >>

PreferencesFetched(p) ==
    /\ userPreferences = Null
    /\ userPreferences' = p
    /\ UNCHANGED << recVars, scoreVars, fetchVars, screenVars, prefsVars >>
    /\ UNCHANGED << currentMealPlan, loading, error, initialized, recipes,
                    rendered, backend, pending, nextMealId, batch, lastOp >>

GenerateInitialMealPlan ==
    /\ batch < MaxBatch
    /\ batch' = batch + 1
    /\ UNCHANGED << recVars, scoreVars, fetchVars, screenVars, prefsVars >>
    /\ Generate(GenerateClosure(rendered), FALSE)
    /\ loading' = IF rendered.userPreferences = Null THEN loading ELSE FALSE
    /\ lastOp' = Op("generate", 0, NoMeal, 0)
    /\ UNCHANGED << recipes, userPreferences, rendered, backend, pending >>

RegenerateMealPlan ==
    /\ batch < MaxBatch
    /\ batch' = batch + 1
    /\ UNCHANGED << recVars, scoreVars, fetchVars, screenVars, prefsVars >>
    /\ Generate(GenerateClosure(rendered), TRUE)
    /\ loading' = IF rendered.userPreferences = Null THEN loading ELSE FALSE
    /\ lastOp' = Op("regenerate", 0, NoMeal, 0)
    /\ UNCHANGED << recipes, userPreferences, rendered, backend, pending >>

\* the meal addMealToPlan builds
NewMeal(recipe, servings, closure, n) ==
    [ id |-> MealId(n),
      recipe |-> recipe,
      servings |->
          OrElse(servings,
              OrElse(IF closure.userPreferences = Null
                        THEN 0 ELSE closure.userPreferences.serves_per_meal,
                  OrElse(recipe.default_servings, 1))),
      status |-> "none" ]

\* currentMealPlan.find((meal) => meal.recipe.id === recipe.id)
ExistingMeal(closure, recipe) ==
    \E i \in DOMAIN closure.currentMealPlan :
        closure.currentMealPlan[i].recipe.id = recipe.id

AddMealToPlan(recipe, servings) ==
    /\ batch < MaxBatch
    /\ batch' = batch + 1
    /\ UNCHANGED << recVars, scoreVars, fetchVars, screenVars, prefsVars >>
    /\ ~ExistingMeal(rendered, recipe) => nextMealId <= MaxMealIds
    /\ IF ExistingMeal(rendered, recipe)
          THEN UNCHANGED << currentMealPlan, nextMealId >>
          ELSE /\ currentMealPlan' =
                     Append(currentMealPlan,
                            NewMeal(recipe, servings, rendered, nextMealId))
               /\ nextMealId' = nextMealId + 1
    /\ lastOp' = Op("add", recipe.id, NoMeal, servings)
    /\ UNCHANGED << loading, error, initialized, recipes, userPreferences,
                    rendered, backend, pending >>

\* a variant that also drops the entries after the one removed
RemoveMealFromPlan_DroppingTheRest(mealId) ==
    /\ batch < MaxBatch
    /\ batch' = batch + 1
    /\ UNCHANGED << recVars, scoreVars, fetchVars, screenVars, prefsVars >>
    /\ currentMealPlan' =
          IF \E k \in DOMAIN currentMealPlan : currentMealPlan[k].id = mealId
             THEN SubSeq(currentMealPlan, 1,
                      (CHOOSE k \in DOMAIN currentMealPlan :
                          currentMealPlan[k].id = mealId) - 1)
             ELSE currentMealPlan
    /\ lastOp' = Op("remove", 0, mealId, 0)
    /\ UNCHANGED << loading, error, initialized, recipes, userPreferences,
                    rendered, backend, pending, nextMealId >>

\* the state updates of removeMealFromPlan(mealId)
RemoveMealUpdates(mealId) ==
    /\ batch < MaxBatch
    /\ batch' = batch + 1
    /\ currentMealPlan' = SelectSeq(currentMealPlan, LAMBDA m : m.id # mealId)
    /\ lastOp' = Op("remove", 0, mealId, 0)
    /\ UNCHANGED << loading, error, initialized, recipes, userPreferences,
                    rendered, backend, pending, nextMealId >>

RemoveMealFromPlan(mealId) ==
    /\ RemoveMealUpdates(mealId)
    /\ UNCHANGED << recVars, scoreVars, fetchVars, screenVars, prefsVars >>

\* a variant that rewrites the servings of every entry
UpdateMealServings_OfEveryEntry(mealId, servings) ==
    /\ batch < MaxBatch
    /\ batch' = batch + 1
    /\ UNCHANGED << recVars, scoreVars, fetchVars, screenVars, prefsVars >>
    /\ currentMealPlan' =
          [ i \in DOMAIN currentMealPlan |->
              [ currentMealPlan[i] EXCEPT !.servings = servings ] ]
    /\ lastOp' = Op("update", 0, mealId, servings)
    /\ UNCHANGED << loading, error, initialized, recipes, userPreferences,
                    rendered, backend, pending, nextMealId >>

UpdateMealServings(mealId, servings) ==
    /\ batch < MaxBatch
    /\ batch' = batch + 1
    /\ UNCHANGED << recVars, scoreVars, fetchVars, screenVars, prefsVars >>
    /\ currentMealPlan' =
          [ i \in DOMAIN currentMealPlan |->
              IF currentMealPlan[i].id = mealId
                 THEN [ currentMealPlan[i] EXCEPT !.servings = servings ]
                 ELSE currentMealPlan[i] ]
    /\ lastOp' = Op("update", 0, mealId, servings)
    /\ UNCHANGED << loading, error, initialized, recipes, userPreferences,
                    rendered, backend, pending, nextMealId >>

ClearMealPlan ==
    /\ batch < MaxBatch
    /\ batch' = batch + 1
    /\ UNCHANGED << recVars, scoreVars, fetchVars, screenVars, prefsVars >>
    /\ currentMealPlan' = << >>
    /\ lastOp' = Op("clear", 0, NoMeal, 0)
    /\ UNCHANGED << loading, error, initialized, recipes, userPreferences,
                    rendered, backend, pending, nextMealId >>

\* getMealById of a render: currentMealPlan.find((meal) => meal.id === mealId)
getMealById(closure, mealId) ==
    LET found == SelectSeq(closure.currentMealPlan, LAMBDA m : m.id = mealId)
    IN  IF found = << >> THEN Null ELSE Head(found)

\* recipe.tagIds.some((tagId) => user_preference_tags.find(tag_id === tagId))
HasPreferredTag(recipe, preferences) ==
    \E i \in DOMAIN recipe.tagIds :
        \E j \in DOMAIN preferences.user_preference_tags :
            preferences.user_preference_tags[j].tag_id = recipe.tagIds[i]

\* getFilteredRecipes of the recommendation hook
getFilteredRecipes(catalog, preferences) ==
    IF Len(preferences.user_preference_tags) = 0
       THEN catalog
       ELSE SelectSeq(catalog, LAMBDA recipe : HasPreferredTag(recipe, preferences))

\* getAvailableRecipes of a render
getAvailableRecipes(closure) ==
    IF closure.userPreferences = Null
       THEN closure.recipes
       ELSE SelectSeq(getFilteredRecipes(closure.recipes, closure.userPreferences),
                LAMBDA recipe :
                    \A k \in DOMAIN closure.currentMealPlan :
                        closure.currentMealPlan[k].recipe.id # recipe.id)

(***************************************************************************)
(* Persistence.  The three remote procedures are not part of the sources;  *)
(* they are modelled from their contract: replace_week_meal_plan replaces  *)
(* the week's rows by the meals given, get_week_meal_plan_with_recipes     *)
(* returns the week's rows, update_week_meal_plan_status rewrites the      *)
(* status of the week's rows.  A call takes effect when it is answered.    *)
(***************************************************************************)
\* replace_week_meal_plan(p_week_id, p_meals, p_user_id): the rows it leaves
ReplaceWeekMealPlan(p_meals) ==
    [ i \in DOMAIN p_meals |->
        [ id |-> i,
          recipe_id |-> p_meals[i].recipe_id,
          servings |-> p_meals[i].servings,
          status |-> p_meals[i].status ] ]

\* update_week_meal_plan_status(p_week_id, p_status, p_user_id)
UpdateWeekMealPlanStatus(rows, p_status) ==
    [ i \in DOMAIN rows |-> [ rows[i] EXCEPT !.status = p_status ] ]

\* a variant that gives every meal the sort order 0
MealsData_WithoutPosition(meals, status) ==
    [ i \in DOMAIN meals |->
        [ recipe_id |-> meals[i].recipe.id,
          servings |-> meals[i].servings,
          sort_order |-> 0,
          status |-> status ] ]

\* a variant that keeps the status an entry already carries
MealsData_KeepingEntryStatus(meals, status) ==
    [ i \in DOMAIN meals |->
        [ recipe_id |-> meals[i].recipe.id,
          servings |-> meals[i].servings,
          sort_order |-> i - 1,
          status |-> IF meals[i].status \in Statuses
                        THEN meals[i].status ELSE status ] ]

\* p_meals of saveMealPlanForWeek
MealsData(meals, status) ==
    [ i \in DOMAIN meals |->
        [ recipe_id |-> meals[i].recipe.id,
          servings |-> meals[i].servings,
          sort_order |-> i - 1,
          status |-> status ] ]

\* get_week_meal_plan_with_recipes: the recipe columns a row is returned with
RecipeSnapshot(row) ==
    [ recipe_name |-> << "name", row.recipe_id >>,
      recipe_image_url |-> << "image", row.recipe_id >>,
      recipe_total_time |-> 10 * row.recipe_id ]

\* the recipe getMealPlanForWeek gives a row: the catalog's, or the row's
\* snapshot with defaults
HydratedRecipe(row, catalog) ==
    IF \E i \in DOMAIN catalog : catalog[i].id = row.recipe_id
       THEN catalog[CHOOSE i \in DOMAIN catalog :
                       /\ catalog[i].id = row.recipe_id
                       /\ \A j \in 1..(i - 1) : catalog[j].id # row.recipe_id]
       ELSE [ id |-> row.recipe_id,
              name |-> RecipeSnapshot(row).recipe_name,
              image_url |-> RecipeSnapshot(row).recipe_image_url,
              total_time |-> RecipeSnapshot(row).recipe_total_time,
              tagIds |-> << >>,
              prep_time |-> 0,
              cook_time |-> 0,
              default_servings |-> 1 ]

\* a variant that leaves out the rows whose recipe is not in the catalog
SavedMeals_OfCatalogRecipes(rows, catalog) ==
    LET known == SelectSeq(rows, LAMBDA row :
                     \E i \in DOMAIN catalog : catalog[i].id = row.recipe_id)
    IN  [ i \in DOMAIN known |->
            [ id |-> SavedId(known[i].id),
              recipe |-> HydratedRecipe(known[i], catalog),
              servings |-> known[i].servings,
              status |-> known[i].status ] ]

\* a variant that takes the servings of the hydrated recipe, not of the row
SavedMeals_RecipeServings(rows, catalog) ==
    [ i \in DOMAIN rows |->
        [ id |-> SavedId(rows[i].id),
          recipe |-> HydratedRecipe(rows[i], catalog),
          servings |-> HydratedRecipe(rows[i], catalog).default_servings,
          status |-> rows[i].status ] ]

\* getMealPlanForWeek: the meals made of the rows fetched
SavedMeals(rows, catalog) ==
    [ i \in DOMAIN rows |->
        [ id |-> SavedId(rows[i].id),
          recipe |-> HydratedRecipe(rows[i], catalog),
          servings |-> rows[i].servings,
          status |-> rows[i].status ] ]

RemoveAt(q, i) == SubSeq(q, 1, i - 1) \o SubSeq(q, i + 1, Len(q))

\* status: "draft" | "confirmed" | "completed" = "draft"
StatusOrDraft(status) == IF status = "omitted" THEN "draft" ELSE status

\* saveMealPlanForWeek(weekId, meals = currentMealPlan, status), up to its
\* await
SaveMealPlanForWeekWithin(status, limit) ==
    /\ batch < MaxBatch
    /\ batch' = batch + 1
    /\ UNCHANGED << recVars, scoreVars, fetchVars, screenVars, prefsVars >>
    /\ Len(pending) < limit
    /\ loading' = TRUE
    /\ error' = "null"
    /\ pending' = Append(pending,
          [ op |-> "save", closure |-> GenerateClosure(rendered),
            arg |-> status, status |-> StatusOrDraft(status),
            meals |-> MealsData(rendered.currentMealPlan, StatusOrDraft(status)) ])
    /\ lastOp' = Op("save", 0, NoMeal, 0)
    /\ UNCHANGED << currentMealPlan, initialized, recipes, userPreferences,
                    rendered, backend, nextMealId >>

SaveMealPlanForWeek(status) == SaveMealPlanForWeekWithin(status, MaxPending)

\* a variant that logs a failure of the save without recording it
SaveAnswered_NotRecordingError(i, ok) ==
    /\ batch < MaxBatch
    /\ batch' = batch + 1
    /\ UNCHANGED << recVars, scoreVars, fetchVars, screenVars, prefsVars >>
    /\ pending[i].op = "save"
    /\ backend' = IF ok THEN ReplaceWeekMealPlan(pending[i].meals) ELSE backend
    /\ loading' = FALSE
    /\ pending' = RemoveAt(pending, i)
    /\ lastOp' = Op(IF ok THEN "saved" ELSE "save failed", 0, NoMeal, 0)
    /\ UNCHANGED << currentMealPlan, error, initialized, recipes,
                    userPreferences, rendered, nextMealId >>

\* the answer to a save: success, or an error that is recorded and rethrown
SaveAnswered(i, ok) ==
    /\ batch < MaxBatch
    /\ batch' = batch + 1
    /\ UNCHANGED << recVars, scoreVars, fetchVars, screenVars, prefsVars >>
    /\ pending[i].op = "save"
    /\ backend' = IF ok THEN ReplaceWeekMealPlan(pending[i].meals) ELSE backend
    /\ error' = IF ok THEN error ELSE "save failed"
    /\ loading' = FALSE
    /\ pending' = RemoveAt(pending, i)
    /\ lastOp' = Op(IF ok THEN "saved" ELSE "save failed", 0, NoMeal, 0)
    /\ UNCHANGED << currentMealPlan, initialized, recipes, userPreferences,
                    rendered, nextMealId >>

\* loadMealPlanForWeek(weekId), up to its await
LoadMealPlanForWeekWithin(limit) ==
    /\ batch < MaxBatch
    /\ batch' = batch + 1
    /\ UNCHANGED << recVars, scoreVars, fetchVars, screenVars, prefsVars >>
    /\ Len(pending) < limit
    /\ loading' = TRUE
    /\ error' = "null"
    /\ pending' = Append(pending,
          [ op |-> "load", closure |-> GenerateClosure(rendered),
            arg |-> "none", status |-> "none",
            meals |-> << >> ])
    /\ lastOp' = Op("load", 0, NoMeal, 0)
    /\ UNCHANGED << currentMealPlan, initialized, recipes, userPreferences,
                    rendered, backend, nextMealId >>

LoadMealPlanForWeek == LoadMealPlanForWeekWithin(MaxPending)

\* a variant that saves the plan its fallback generates
LoadAnswered_PersistingFallback(i, ok) ==
    /\ batch < MaxBatch
    /\ batch' = batch + 1
    /\ UNCHANGED << recVars, scoreVars, fetchVars, screenVars, prefsVars >>
    /\ pending[i].op = "load"
    /\ LET savedMeals == IF ok THEN SavedMeals(backend, pending[i].closure.recipes)
                               ELSE << >>
       IN  IF Len(savedMeals) > 0
              THEN /\ currentMealPlan' = savedMeals
                   /\ UNCHANGED << error, initialized, nextMealId, backend >>
              ELSE /\ Generate(pending[i].closure, FALSE)
                   /\ backend' = ReplaceWeekMealPlan(
                                     MealsData(currentMealPlan', "draft"))
    /\ loading' = FALSE
    /\ pending' = RemoveAt(pending, i)
    /\ lastOp' = Op(IF ok THEN "loaded" ELSE "load failed", 0, NoMeal, 0)
    /\ UNCHANGED << recipes, userPreferences, rendered >>

\* the answer to the fetch of a load: getMealPlanForWeek returns the meals of
\* the rows, or [] when the fetch failed; loadMealPlanForWeek sets them, or
\* generates with the closure it was created in when there are none
LoadAnswerUpdates(i, ok) ==
    /\ batch < MaxBatch
    /\ batch' = batch + 1
    /\ pending[i].op = "load"
    /\ LET savedMeals == IF ok THEN SavedMeals(backend, pending[i].closure.recipes)
                               ELSE << >>
       IN  IF Len(savedMeals) > 0
              THEN /\ currentMealPlan' = savedMeals
                   /\ UNCHANGED << error, initialized, nextMealId >>
              ELSE Generate(pending[i].closure, FALSE)
    /\ loading' = FALSE
    /\ pending' = RemoveAt(pending, i)
    /\ lastOp' = Op(IF ok THEN "loaded" ELSE "load failed", 0, NoMeal, 0)
    /\ UNCHANGED << recipes, userPreferences, rendered, backend >>

LoadAnswered(i, ok) ==
    /\ LoadAnswerUpdates(i, ok)
    /\ UNCHANGED << recVars, scoreVars, fetchVars, screenVars, prefsVars >>

\* a variant that writes the status by saving the working plan with it
UpdateMealPlanStatus_BySaving(status) ==
    /\ batch < MaxBatch
    /\ batch' = batch + 1
    /\ UNCHANGED << recVars, scoreVars, fetchVars, screenVars, prefsVars >>
    /\ Len(pending) < MaxPending
    /\ loading' = TRUE
    /\ error' = "null"
    /\ pending' = Append(pending,
          [ op |-> "save", closure |-> GenerateClosure(rendered),
            arg |-> status, status |-> status,
            meals |-> MealsData(rendered.currentMealPlan, status) ])
    /\ lastOp' = Op("status", 0, NoMeal, 0)
    /\ UNCHANGED << currentMealPlan, initialized, recipes, userPreferences,
                    rendered, backend, nextMealId >>

\* updateMealPlanStatus(weekId, status), up to its await
UpdateMealPlanStatusWithin(status, limit) ==
    /\ batch < MaxBatch
    /\ batch' = batch + 1
    /\ UNCHANGED << recVars, scoreVars, fetchVars, screenVars, prefsVars >>
    /\ Len(pending) < limit
    /\ loading' = TRUE
    /\ error' = "null"
    /\ pending' = Append(pending,
          [ op |-> "status", closure |-> GenerateClosure(rendered),
            arg |-> status, status |-> status,
            meals |-> << >> ])
    /\ lastOp' = Op("status", 0, NoMeal, 0)
    /\ UNCHANGED << currentMealPlan, initialized, recipes, userPreferences,
                    rendered, backend, nextMealId >>

UpdateMealPlanStatus(status) == UpdateMealPlanStatusWithin(status, MaxPending)

StatusAnswered(i, ok) ==
    /\ batch < MaxBatch
    /\ batch' = batch + 1
    /\ UNCHANGED << recVars, scoreVars, fetchVars, screenVars, prefsVars >>
    /\ pending[i].op = "status"
    /\ backend' = IF ok THEN UpdateWeekMealPlanStatus(backend, pending[i].status)
                        ELSE backend
    /\ error' = IF ok THEN error ELSE "status update failed"
    /\ loading' = FALSE
    /\ pending' = RemoveAt(pending, i)
    /\ lastOp' = Op(IF ok THEN "status updated" ELSE "status failed", 0, NoMeal, 0)
    /\ UNCHANGED << currentMealPlan, initialized, recipes, userPreferences,
                    rendered, nextMealId >>

\* the week's rows when the provider is constructed: none, or the rows of a
\* plan saved earlier
SavedRows ==
    ReplaceWeekMealPlan(
        << [ recipe_id |-> 1, servings |-> 2, sort_order |-> 0, status |-> "draft" ],
           [ recipe_id |-> 2, servings |-> 3, sort_order |-> 1, status |-> "draft" ] >>)

(***************************************************************************)
(* Spec: the working plan under the provider's in-memory operations,       *)
(* generation and loading, with the week's saved rows fixed                *)
(***************************************************************************)
Init ==
    /\ ProviderConstructed
    /\ backend \in { << >>, SavedRows }
    /\ RecIdle
    /\ ScoreIdle

Next ==
    \/ Render
    \/ RecipesFetched(ProviderCatalog)
    \/ PreferencesFetched(TaggedPreferences)
    \/ GenerateInitialMealPlan
    \/ RegenerateMealPlan
    \/ \E recipe \in Range(rendered.recipes) : AddMealToPlan(recipe, 0)
    \/ \E mealId \in RenderedMealIds : RemoveMealFromPlan(mealId)
    \/ \E mealId \in RenderedMealIds : UpdateMealServings(mealId, 0)
    \/ ClearMealPlan
    \/ LoadMealPlanForWeek
    \/ \E i \in DOMAIN pending, ok \in BOOLEAN : LoadAnswered(i, ok)

Spec == Init /\ [][Next]_vars

(***************************************************************************)
(* SpecStore: the week's plan saved, loaded and its status updated, the    *)
(* working plan built by loading and adding                                *)
(***************************************************************************)
\* status arguments of saveMealPlanForWeek; "omitted" is a call without one
SaveStatusArgs == { "omitted", "confirmed" }

InitStore ==
    /\ ProviderConstructed
    /\ backend = SavedRows
    /\ RecIdle
    /\ ScoreIdle

NextStore ==
    \/ Render
    \/ RecipesFetched(ProviderCatalog)
    \/ PreferencesFetched(TaggedPreferences)
    \/ \E recipe \in Range(rendered.recipes) : AddMealToPlan(recipe, 0)
    \/ ClearMealPlan
    \/ \E status \in SaveStatusArgs : SaveMealPlanForWeek(status)
    \/ \E i \in DOMAIN pending, ok \in BOOLEAN : SaveAnswered(i, ok)
    \/ LoadMealPlanForWeek
    \/ \E i \in DOMAIN pending, ok \in BOOLEAN : LoadAnswered(i, ok)
    \/ UpdateMealPlanStatus("completed")
    \/ \E i \in DOMAIN pending, ok \in BOOLEAN : StatusAnswered(i, ok)

SpecStore == InitStore /\ [][NextStore]_vars

(***************************************************************************)
(* SpecEdit: the in-memory edits of the working plan, with their arguments *)
(* varied, on plans that were loaded, generated or built by adding         *)
(***************************************************************************)
\* the servings argument of updateMealServings
UpdateServingsArgs == { 5 }

\* a saved week whose second recipe has left the catalog since
RowsOfRemovedRecipe ==
    ReplaceWeekMealPlan(
        << [ recipe_id |-> 1, servings |-> 2, sort_order |-> 0, status |-> "draft" ],
           [ recipe_id |-> NRecipes + 1, servings |-> 3, sort_order |-> 1,
             status |-> "draft" ] >>)

InitEdit ==
    /\ ProviderConstructed
    /\ backend = RowsOfRemovedRecipe
    /\ RecIdle
    /\ ScoreIdle

NextEdit ==
    \/ Render
    \/ RecipesFetched(ProviderCatalog)
    \/ PreferencesFetched(TaggedPreferences)
    \/ \E recipe \in Range(rendered.recipes) : AddMealToPlan(recipe, 3)
    \/ \E mealId \in MealIds : RemoveMealFromPlan(mealId)
    \/ \E mealId \in MealIds, servings \in UpdateServingsArgs :
          UpdateMealServings(mealId, servings)
    \/ LoadMealPlanForWeek
    \/ \E i \in DOMAIN pending : LoadAnswered(i, TRUE)

SpecEdit == InitEdit /\ [][NextEdit]_vars

(***************************************************************************)
(* SpecOverlap: save, load and status update called while another of them  *)
(* is waiting for the backend                                              *)
(***************************************************************************)
\* the provider renders again after setLoading or setError, and none of the
\* values its callbacks close over has changed
RenderWithSameCallbacks ==
    /\ rendered = Current
    /\ batch > 0
    /\ batch' = 0
    /\ UNCHANGED << recVars, scoreVars, fetchVars, screenVars, prefsVars >>
    /\ UNCHANGED << currentMealPlan, loading, error, initialized, recipes,
                    userPreferences, rendered, backend, pending, nextMealId,
                    lastOp >>

InitOverlap ==
    /\ ProviderConstructed
    /\ backend = SavedRows
    /\ RecIdle
    /\ ScoreIdle

NextOverlap ==
    \/ Render
    \/ RenderWithSameCallbacks
    \/ SaveMealPlanForWeekWithin("omitted", MaxOverlap)
    \/ \E i \in DOMAIN pending, ok \in BOOLEAN : SaveAnswered(i, ok)
    \/ LoadMealPlanForWeekWithin(MaxOverlap)
    \/ \E i \in DOMAIN pending, ok \in BOOLEAN : LoadAnswered(i, ok)
    \/ UpdateMealPlanStatusWithin("completed", MaxOverlap)
    \/ \E i \in DOMAIN pending, ok \in BOOLEAN : StatusAnswered(i, ok)

SpecOverlap == InitOverlap /\ [][NextOverlap]_vars

(***************************************************************************)
(* SpecFetch: the data providers.  Each fetches in an effect while it is   *)
(* not initialized, and again when a consumer calls its refresh function;  *)
(* the weeks provider also fetches from a daily timer.  A fetch that       *)
(* succeeds hands its data to the meal-plan provider.                      *)
(***************************************************************************)
\* what the fetching effect of a provider waits for besides !initialized:
\* the recipes provider for tagsInitialized, the preferences provider for a
\* user id (a user is signed in throughout)
EffectGate(p) ==
    IF p = "recipes" THEN fetch["reference"].initialized ELSE TRUE

\* a variant of the effect that runs again when the error changes
EffectDeps_WithError(p) ==
    IF p = "reference" THEN << TRUE, FALSE >>
                       ELSE << EffectGate(p),
                               fetch[p].initialized # fetch[p].error >>

\* the dependencies of the fetching effect that change
EffectDeps(p) ==
    IF p = "reference" THEN << TRUE, FALSE >>
                       ELSE << EffectGate(p), fetch[p].initialized >>

\* fetchTags, fetchWeeks, fetchRecipes, fetchPreferences up to the await
FetchStarted(state) ==
    [ state EXCEPT !.loading = TRUE, !.error = FALSE, !.failed = FALSE,
                   !.inFlight = @ + 1 ]

\* the fetching effect of a provider runs: on mount and when one of its
\* dependencies has changed
ProviderEffect(p) ==
    /\ ~fetch[p].mounted \/ fetch[p].effectSeen # EffectDeps(p)
    /\ LET fetches == IF p = "reference"
                         THEN TRUE
                         ELSE EffectGate(p) /\ ~fetch[p].initialized
           seen == [ fetch[p] EXCEPT !.mounted = TRUE,
                                     !.effectSeen = EffectDeps(p) ]
       IN  /\ fetches => fetchesIssued < MaxFetches
           /\ fetch' = [ fetch EXCEPT ![p] = IF fetches THEN FetchStarted(seen)
                                                       ELSE seen ]
           /\ fetchesIssued' = IF fetches THEN fetchesIssued + 1 ELSE fetchesIssued
           /\ lastFetch' = [ provider |-> p,
                             by |-> IF fetches THEN "effect" ELSE "none",
                             afterFailure |-> fetches /\ fetch[p].failed ]
    /\ UNCHANGED << recVars, scoreVars, planVars, screenVars, prefsVars >>

\* a consumer calls refreshAll, refreshWeeks, refreshRecipes or
\* refreshPreferences
RefreshCalled(p) ==
    /\ fetch[p].mounted
    /\ fetchesIssued < MaxFetches
    /\ fetch' = [ fetch EXCEPT ![p] = FetchStarted(@) ]
    /\ fetchesIssued' = fetchesIssued + 1
    /\ lastFetch' = [ provider |-> p, by |-> "caller",
                      afterFailure |-> fetch[p].failed ]
    /\ UNCHANGED << recVars, scoreVars, planVars, screenVars, prefsVars >>

\* the timer the weeks provider sets once it is initialized fires
WeekTransitionTimer ==
    /\ fetch["weeks"].initialized
    /\ fetchesIssued < MaxFetches
    /\ fetch' = [ fetch EXCEPT !["weeks"] = FetchStarted(@) ]
    /\ fetchesIssued' = fetchesIssued + 1
    /\ lastFetch' = [ provider |-> "weeks", by |-> "timer",
                      afterFailure |-> fetch["weeks"].failed ]
    /\ UNCHANGED << recVars, scoreVars, planVars, screenVars, prefsVars >>

\* the answer to a fetch: the data is set and the provider initialized, or
\* the error is set; the loading flag is cleared either way.  refreshAll of
\* the reference data sets initialized after a failure as well.
FetchAnswered(p, ok) ==
    /\ fetch[p].inFlight > 0
    /\ fetch' = [ fetch EXCEPT ![p] =
                    [ @ EXCEPT !.loading = FALSE,
                               !.error = IF ok THEN @ ELSE TRUE,
                               !.failed = ~ok,
                               !.initialized = IF ok \/ p = "reference"
                                                  THEN TRUE ELSE @,
                               !.inFlight = @ - 1 ] ]
    /\ lastFetch' = [ provider |-> p, by |-> "answer", afterFailure |-> FALSE ]
    /\ recipes' = IF ok /\ p = "recipes" THEN ProviderCatalog ELSE recipes
    /\ userPreferences' = IF ok /\ p = "preferences" THEN TaggedPreferences
                                                      ELSE userPreferences
    /\ UNCHANGED << recVars, scoreVars, fetchesIssued, screenVars, prefsVars >>
    /\ UNCHANGED << currentMealPlan, loading, error, initialized, rendered,
                    backend, pending, nextMealId, batch, lastOp >>

InitFetch ==
    /\ ProviderConstructed
    /\ backend = SavedRows
    /\ RecIdle
    /\ ScoreIdle

NextFetch ==
    \/ \E p \in Providers : ProviderEffect(p)
    \/ \E p \in Providers : RefreshCalled(p)
    \/ WeekTransitionTimer
    \/ \E p \in Providers, ok \in BOOLEAN : FetchAnswered(p, ok)
    \/ Render
    \/ \E status \in SaveStatusArgs : SaveMealPlanForWeek(status)
    \/ \E i \in DOMAIN pending, ok \in BOOLEAN : SaveAnswered(i, ok)
    \/ UpdateMealPlanStatus("completed")
    \/ \E i \in DOMAIN pending, ok \in BOOLEAN : StatusAnswered(i, ok)

SpecFetch == InitFetch /\ [][NextFetch]_vars

(***************************************************************************)
(* SpecScreen: the meal-planner screen, mounted for one week.  Its load    *)
(* effect calls loadMealPlanForWeek at mount and whenever that callback is *)
(* a new function; its other effect copies currentMealPlan into            *)
(* selectedMeals whenever currentMealPlan is a new array.  The handlers    *)
(* edit selectedMeals; handleRemoveMeal also calls removeMealFromPlan.     *)
(* SpecScreenIdle is the screen left alone by the user, with every render  *)
(* and every backend answer eventually happening.                          *)
(***************************************************************************)
\* loadMealPlanForWeek is recreated when generateInitialMealPlan is, which
\* is when userPreferences, currentMealPlan or getRecommendations (recipes)
\* is another value than at the render before
LoadEffectDue ==
    /\ screen.mounted
    /\ \/ ~screen.planSeen
       \/ rendered.userPreferences # userPreferences
       \/ rendered.recipes # recipes

\* a render of the provider and of the screen, with the effects it runs: the
\* screen's load effect and its copy of currentMealPlan, then the provider's
\* generation
ScreenRender ==
    /\ screen.mounted
    /\ batch > 0 \/ rendered # Current \/ ~screen.planSeen
    /\ rendered' = Current
    /\ LoadEffectDue => Len(pending) < MaxScreenLoads
    /\ pending' =
          IF LoadEffectDue
             THEN Append(pending,
                      [ op |-> "load", closure |-> GenerateClosure(Current),
                        arg |-> "none", status |-> "none", meals |-> << >> ])
             ELSE pending
    /\ IF InitEffectRuns(Current)
          THEN /\ GenerateWithPreferences(GenerateClosure(Current))
               /\ loading' = FALSE
               /\ lastOp' = Op("generate", 0, NoMeal, 0)
          ELSE /\ loading' = IF LoadEffectDue THEN TRUE ELSE loading
               /\ error' = IF LoadEffectDue THEN "null" ELSE error
               /\ lastOp' = IF LoadEffectDue THEN Op("load", 0, NoMeal, 0)
                                            ELSE lastOp
               /\ UNCHANGED << currentMealPlan, initialized, nextMealId >>
    /\ batch' = (IF LoadEffectDue THEN 1 ELSE 0)
                 + (IF InitEffectRuns(Current) THEN 1 ELSE 0)
    /\ screen' = [ screen EXCEPT
                     !.selectedMeals = IF screen.planSeen THEN @
                                                          ELSE currentMealPlan,
                     !.planSeen = ~InitEffectRuns(Current) ]
    /\ UNCHANGED << recipes, userPreferences, backend >>
    /\ UNCHANGED << recVars, scoreVars, fetchVars, prefsVars >>

\* the answer to a load sets currentMealPlan to a new array, unless no row
\* came back and the preferences were absent
LoadSetsPlan(i, ok) ==
    \/ ok /\ Len(SavedMeals(backend, pending[i].closure.recipes)) > 0
    \/ pending[i].closure.userPreferences # Null

LoadAnsweredOnScreen(i, ok) ==
    /\ LoadAnswerUpdates(i, ok)
    /\ screen' = [ screen EXCEPT !.planSeen = @ /\ ~LoadSetsPlan(i, ok) ]
    /\ UNCHANGED << recVars, scoreVars, fetchVars, prefsVars >>

\* the screen has been rendered with the state as it is, its effects have
\* run, and it shows the meals and not its loading or error view: the user
\* can press a button
ScreenSettled ==
    /\ screen.mounted
    /\ batch = 0
    /\ rendered = Current
    /\ screen.planSeen
    /\ ~loading
    /\ error = "null"

\* handleAddMeal(recipe): a recipe already selected is ignored
HandleAddMeal(recipe) ==
    /\ ScreenSettled
    /\ \A k \in DOMAIN screen.selectedMeals :
          screen.selectedMeals[k].recipe.id # recipe.id
    /\ nextMealId <= MaxMealIds
    /\ nextMealId' = nextMealId + 1
    /\ screen' = [ screen EXCEPT
                     !.selectedMeals =
                         Append(@, [ id |-> MealId(nextMealId), recipe |-> recipe,
                                     servings |-> 1, status |-> "none" ]),
                     !.hasChanges = TRUE ]
    /\ UNCHANGED << currentMealPlan, loading, error, initialized, recipes,
                    userPreferences, rendered, backend, pending, batch, lastOp >>
    /\ UNCHANGED << recVars, scoreVars, fetchVars, prefsVars >>

\* handleServingsChange(mealId, servings)
HandleServingsChange(mealId, servings) ==
    /\ ScreenSettled
    /\ screen' = [ screen EXCEPT
                     !.selectedMeals =
                         [ k \in DOMAIN @ |->
                             IF @[k].id = mealId
                                THEN [ @[k] EXCEPT !.servings = servings ]
                                ELSE @[k] ],
                     !.hasChanges = TRUE ]
    /\ UNCHANGED planVars
    /\ UNCHANGED << recVars, scoreVars, fetchVars, prefsVars >>

\* handleRemoveMeal(mealId): the meal leaves selectedMeals and, through
\* removeMealFromPlan, the provider's plan, which becomes a new array
HandleRemoveMeal(mealId) ==
    /\ ScreenSettled
    /\ RemoveMealUpdates(mealId)
    /\ screen' = [ screen EXCEPT
                     !.selectedMeals = SelectSeq(@, LAMBDA m : m.id # mealId),
                     !.hasChanges = TRUE,
                     !.planSeen = FALSE ]
    /\ UNCHANGED << recVars, scoreVars, fetchVars, prefsVars >>

\* the ids of the meals the screen shows
SelectedMealIds ==
    { screen.selectedMeals[k].id : k \in DOMAIN screen.selectedMeals }

\* the screen is opened, the providers being constructed; the week has no
\* saved rows or two
InitScreen ==
    /\ DataProvidersConstructed
    /\ MealPlanProviderConstructed
    /\ PreferencesProviderConstructed
    /\ screen = [ mounted |-> TRUE, selectedMeals |-> << >>,
                  hasChanges |-> FALSE, planSeen |-> FALSE ]
    /\ backend \in { << >>, SavedRows }
    /\ RecIdle
    /\ ScoreIdle

NextScreen ==
    \/ ScreenRender
    \/ RecipesFetched(ProviderCatalog)
    \/ PreferencesFetched(TaggedPreferences)
    \/ \E i \in DOMAIN pending : LoadAnsweredOnScreen(i, TRUE)
    \/ \E recipe \in Range(recipes) : HandleAddMeal(recipe)
    \/ \E mealId \in SelectedMealIds, servings \in UpdateServingsArgs :
          HandleServingsChange(mealId, servings)
    \/ \E mealId \in SelectedMealIds : HandleRemoveMeal(mealId)

SpecScreen == InitScreen /\ [][NextScreen]_vars

NextScreenIdle ==
    \/ ScreenRender
    \/ RecipesFetched(ProviderCatalog)
    \/ PreferencesFetched(TaggedPreferences)
    \/ \E i \in DOMAIN pending, ok \in BOOLEAN : LoadAnsweredOnScreen(i, ok)

SpecScreenIdle ==
    /\ InitScreen
    /\ [][NextScreenIdle]_vars
    /\ WF_vars(ScreenRender)
    /\ WF_vars(\E i \in DOMAIN pending, ok \in BOOLEAN : LoadAnsweredOnScreen(i, ok))

(***************************************************************************)
(* SpecPrefs: the preferences provider while users sign in and out.  Its   *)
(* first effect fetches the preferences of the signed-in user while it is  *)
(* not initialized, its second clears them when nobody is signed in;       *)
(* updatePreferenceTags deletes the tag rows of the preferences and        *)
(* inserts the new ones.                                                   *)
(***************************************************************************)
Users == 1..MaxUsers

\* the tagIds arguments of updatePreferenceTags
TagUpdateArgs == { << >>, << 2, 1 >> }

\* the user_preferences row of a user; its id is the user's number
PreferencesRow(u) ==
    [ id |-> u, user_id |-> u, meals_per_week |-> 4, serves_per_meal |-> 2 ]

\* tagIds.map((tagId, index) => ({ user_preference_id, tag_id, priority }))
TagInserts(prefId, tagIds) ==
    { [ user_preference_id |-> prefId, tag_id |-> tagIds[i], priority |-> i - 1 ] :
        i \in DOMAIN tagIds }

\* .from("user_preference_tags") ... .eq("user_preference_id", prefId)
StoredTags(store, prefId) ==
    { r \in store.user_preference_tags : r.user_preference_id = prefId }

\* the orders in which a select can return rows
Orderings(S) ==
    { q \in DistinctSeqs(S, Cardinality(S)) :
        Len(q) = Cardinality(S) /\ Distinct(q) }

\* a call awaiting the backend: a fetch at its select or at the insert of
\* createDefaultPreferences, an updatePreferenceTags at its delete or at its
\* insert; before: the tag rows of the preferences when it was called
PrefsCall(op, stage, user, prefId, tagIds, before) ==
    [ op |-> op, stage |-> stage, user |-> user, prefId |-> prefId,
      tagIds |-> tagIds, before |-> before ]

\* the dependencies of the two effects
PrefsDeps == << session, prefsState.initialized, prefsState.preferences >>

\* the fetching effect runs, and fetches
FetchEffectFetches ==
    /\ prefsState.seen[1] # session \/ prefsState.seen[2] # prefsState.initialized
    /\ session # 0
    /\ ~prefsState.initialized

\* the clearing effect runs, and clears
ClearEffectClears ==
    /\ prefsState.seen[1] # session \/ prefsState.seen[3] # prefsState.preferences
    /\ session = 0
    /\ prefsState.preferences # Null

\* a render of the provider after a change of the session or of its state,
\* with the effects it runs
PrefsRender ==
    /\ prefsState.seen # PrefsDeps
    /\ FetchEffectFetches => Len(prefsCalls) < MaxPrefsCalls
    /\ prefsCalls' =
          IF FetchEffectFetches
             THEN Append(prefsCalls,
                      PrefsCall("fetch", "select", session, 0, << >>, { }))
             ELSE prefsCalls
    /\ prefsState' =
          [ prefsState EXCEPT
              !.loading = IF FetchEffectFetches THEN TRUE ELSE @,
              !.error = IF FetchEffectFetches THEN FALSE ELSE @,
              !.preferences = IF ClearEffectClears THEN Null ELSE @,
              !.initialized = IF ClearEffectClears THEN FALSE ELSE @,
              !.seen = PrefsDeps,
              !.last = IF FetchEffectFetches THEN "fetch"
                       ELSE IF ClearEffectClears THEN "clear" ELSE "render" ]
    /\ UNCHANGED << session, prefsStore >>
    /\ UNCHANGED << recVars, scoreVars, planVars, fetchVars, screenVars >>

SignIn(u) ==
    /\ session = 0
    /\ session' = u
    /\ UNCHANGED << prefsState, prefsCalls, prefsStore >>
    /\ UNCHANGED << recVars, scoreVars, planVars, fetchVars, screenVars >>

SignOut ==
    /\ session # 0
    /\ session' = 0
    /\ UNCHANGED << prefsState, prefsCalls, prefsStore >>
    /\ UNCHANGED << recVars, scoreVars, planVars, fetchVars, screenVars >>

\* { ...prefData, user_preference_tags: tagData?.map(tag_id) || [] }
CompletePreferences(row, tagRows) ==
    [ id |-> row.id, user_id |-> row.user_id,
      meals_per_week |-> row.meals_per_week,
      serves_per_meal |-> row.serves_per_meal,
      user_preference_tags |->
          [ k \in DOMAIN tagRows |-> [ tag_id |-> tagRows[k].tag_id ] ] ]

\* defaultPrefs of fetchPreferences; 0 is the id ""
DefaultPreferences(u) ==
    [ id |-> 0, user_id |-> u, meals_per_week |-> 4, serves_per_meal |-> 2,
      user_preference_tags |-> << >> ]

\* the answer to the select of fetchPreferences: an error, no row, or the
\* row, followed by the answer to the select of its tags
PrefsFetchAnswered(i, ok, tagsOk) ==
    /\ prefsCalls[i].op = "fetch"
    /\ prefsCalls[i].stage = "select"
    /\ LET u == prefsCalls[i].user
           rows == { r \in prefsStore.user_preferences : r.user_id = u }
       IN  IF ~ok
              THEN /\ prefsState' = [ prefsState EXCEPT !.error = TRUE,
                                          !.loading = FALSE,
                                          !.last = "fetch failed" ]
                   /\ prefsCalls' = RemoveAt(prefsCalls, i)
              ELSE IF rows = { }
              THEN /\ prefsState' = [ prefsState EXCEPT
                                          !.preferences = DefaultPreferences(u),
                                          !.initialized = TRUE,
                                          !.last = "defaults" ]
                   /\ prefsCalls' = [ prefsCalls EXCEPT ![i].stage = "create" ]
              ELSE \E row \in rows :
                   \E tagRows \in IF tagsOk
                                     THEN Orderings(StoredTags(prefsStore, row.id))
                                     ELSE { << >> } :
                      /\ prefsState' = [ prefsState EXCEPT
                                           !.preferences =
                                               CompletePreferences(row, tagRows),
                                           !.initialized = TRUE,
                                           !.loading = FALSE,
                                           !.last = "fetched" ]
                      /\ prefsCalls' = RemoveAt(prefsCalls, i)
    /\ UNCHANGED << session, prefsStore >>
    /\ UNCHANGED << recVars, scoreVars, planVars, fetchVars, screenVars >>

\* the answer to the insert of createDefaultPreferences
PrefsCreateAnswered(i, ok) ==
    /\ prefsCalls[i].op = "fetch"
    /\ prefsCalls[i].stage = "create"
    /\ LET row == PreferencesRow(prefsCalls[i].user)
       IN  /\ prefsStore' =
                 IF ok THEN [ prefsStore EXCEPT !.user_preferences = @ \cup { row } ]
                       ELSE prefsStore
           /\ prefsState' =
                 [ prefsState EXCEPT
                     !.preferences = IF ok THEN CompletePreferences(row, << >>)
                                           ELSE @,
                     !.loading = FALSE,
                     !.last = IF ok THEN "created" ELSE "create failed" ]
    /\ prefsCalls' = RemoveAt(prefsCalls, i)
    /\ UNCHANGED session
    /\ UNCHANGED << recVars, scoreVars, planVars, fetchVars, screenVars >>

\* updatePreferenceTags(tagIds), up to its first await
UpdatePreferenceTags(tagIds) ==
    /\ prefsState.seen = PrefsDeps
    /\ prefsState.preferences # Null
    /\ prefsState.preferences.id # 0
    /\ session # 0
    /\ Len(prefsCalls) < MaxPrefsCalls
    /\ prefsCalls' =
          Append(prefsCalls,
              PrefsCall("tags", "delete", session, prefsState.preferences.id,
                  tagIds, StoredTags(prefsStore, prefsState.preferences.id)))
    /\ prefsState' = [ prefsState EXCEPT !.loading = TRUE, !.error = FALSE,
                                         !.last = "tags" ]
    /\ UNCHANGED << session, prefsStore >>
    /\ UNCHANGED << recVars, scoreVars, planVars, fetchVars, screenVars >>

\* setPreferences((prev) => prev ? { ...prev, user_preference_tags } : null)
WithPreferenceTags(prev, tagIds) ==
    IF prev = Null THEN Null
    ELSE [ prev EXCEPT !.user_preference_tags = PreferenceTags(tagIds) ]

\* updatePreferenceTags past its last backend step, or at a failed one
TagsCallEnds(i, ok) ==
    /\ prefsState' =
          [ prefsState EXCEPT
              !.preferences = IF ok THEN WithPreferenceTags(@, prefsCalls[i].tagIds)
                                    ELSE @,
              !.error = IF ok THEN @ ELSE TRUE,
              !.loading = FALSE,
              !.last = IF ok THEN "tags updated" ELSE "tags failed" ]
    /\ prefsCalls' = RemoveAt(prefsCalls, i)

\* the answer to the delete of updatePreferenceTags
TagsDeleteAnswered(i, ok) ==
    /\ prefsCalls[i].op = "tags"
    /\ prefsCalls[i].stage = "delete"
    /\ prefsStore' =
          IF ok THEN [ prefsStore EXCEPT !.user_preference_tags =
                         @ \ StoredTags(prefsStore, prefsCalls[i].prefId) ]
                ELSE prefsStore
    /\ IF ok /\ prefsCalls[i].tagIds # << >>
          THEN /\ prefsCalls' = [ prefsCalls EXCEPT ![i].stage = "insert" ]
               /\ prefsState' = [ prefsState EXCEPT !.last = "tags deleted" ]
          ELSE TagsCallEnds(i, ok)
    /\ UNCHANGED session
    /\ UNCHANGED << recVars, scoreVars, planVars, fetchVars, screenVars >>

\* the answer to the insert of updatePreferenceTags
TagsInsertAnswered(i, ok) ==
    /\ prefsCalls[i].op = "tags"
    /\ prefsCalls[i].stage = "insert"
    /\ prefsStore' =
          IF ok THEN [ prefsStore EXCEPT !.user_preference_tags =
                         @ \cup TagInserts(prefsCalls[i].prefId,
                                           prefsCalls[i].tagIds) ]
                ELSE prefsStore
    /\ TagsCallEnds(i, ok)
    /\ UNCHANGED session
    /\ UNCHANGED << recVars, scoreVars, planVars, fetchVars, screenVars >>

\* the tables when the app starts: empty, or the first user has preferences
\* with one preferred tag
StoreOfFirstUser ==
    [ user_preferences |-> { PreferencesRow(1) },
      user_preference_tags |-> TagInserts(1, << 1 >>) ]

InitPrefs ==
    /\ DataProvidersConstructed
    /\ MealPlanProviderConstructed
    /\ ScreenNotMounted
    /\ backend = << >>
    /\ RecIdle
    /\ ScoreIdle
    /\ session = 0
    /\ prefsState = [ preferences |-> Null, loading |-> FALSE, error |-> FALSE,
                      initialized |-> FALSE,
                      seen |-> << 0, FALSE, Null >>, last |-> "none" ]
    /\ prefsCalls = << >>
    /\ prefsStore \in { [ user_preferences |-> { }, user_preference_tags |-> { } ],
                        StoreOfFirstUser }

NextPrefs ==
    \/ PrefsRender
    \/ \E u \in Users : SignIn(u)
    \/ SignOut
    \/ \E i \in DOMAIN prefsCalls, ok \in BOOLEAN, tagsOk \in BOOLEAN :
          PrefsFetchAnswered(i, ok, tagsOk)
    \/ \E i \in DOMAIN prefsCalls, ok \in BOOLEAN : PrefsCreateAnswered(i, ok)
    \/ \E tagIds \in TagUpdateArgs : UpdatePreferenceTags(tagIds)
    \/ \E i \in DOMAIN prefsCalls, ok \in BOOLEAN : TagsDeleteAnswered(i, ok)
    \/ \E i \in DOMAIN prefsCalls, ok \in BOOLEAN : TagsInsertAnswered(i, ok)

SpecPrefs == InitPrefs /\ [][NextPrefs]_vars

(***************************************************************************)
(* Properties of the working plan (Spec)                                   *)
(***************************************************************************)
\* C1: in every state reached by generating, regenerating, adding, removing,
\* updating servings, clearing and loading, whatever their interleaving with
\* the provider's renders, no two entries of currentMealPlan reference the
\* same recipe id
C1_NoDuplicateRecipes ==
    Distinct(RecipeIdsOf(currentMealPlan))

\* C2: an addMealToPlan(r) that directly follows an addMealToPlan(r) of the
\* same recipe, through the callback of the same render or of a later one,
\* leaves the size of currentMealPlan as the first call left it
C2_SecondAddLeavesSize ==
    [][ ( /\ lastOp.name = "add"
          /\ lastOp' = lastOp
          /\ batch' = batch + 1 )
        => Len(currentMealPlan') = Len(currentMealPlan) ]_vars

\* a step that is a call of generateInitialMealPlan through the callback of
\* the last render
GenerateCalled ==
    /\ lastOp'.name = "generate"
    /\ batch' = batch + 1
    /\ rendered' = rendered

\* the catalog recipes that are not in the working plan
NotInWorkingPlan ==
    { r \in Range(recipes) : ~Includes(RecipeIdsOf(currentMealPlan), r.id) }

\* servings = serves_per_meal when set, else the recipe's default, else 1
GeneratedServings(plan, preferences) ==
    \A i \in DOMAIN plan :
        plan[i].servings =
            OrElse(preferences.serves_per_meal,
                OrElse(plan[i].recipe.default_servings, 1))

\* C12: a generate called with preferences and catalog loaded yields
\* meals_per_week entries when the catalog holds that many recipes that are
\* not in the working plan, otherwise as many as there are, each with servings
\* serves_per_meal, else the recipe's default servings, else 1
C12_GenerateYieldsMealsPerWeek ==
    [][ ( /\ GenerateCalled
          /\ rendered.userPreferences # Null
          /\ rendered.userPreferences = userPreferences
          /\ rendered.recipes = recipes )
        => /\ Len(currentMealPlan') =
                 Min(userPreferences.meals_per_week, Cardinality(NotInWorkingPlan))
           /\ GeneratedServings(currentMealPlan', userPreferences) ]_vars

\* a step that is a call of regenerateMealPlan through the callback of the
\* last render
RegenerateCalled ==
    /\ lastOp'.name = "regenerate"
    /\ batch' = batch + 1
    /\ rendered' = rendered

\* the recipe id sequences generate can produce when started from an empty
\* working plan
GeneratedFromEmptyPlan ==
    { RecipeIdsOf(plan) :
        plan \in GeneratedPlans(
            [ recipeIds |-> << >>, userPreferences |-> userPreferences,
              recipes |-> recipes ], nextMealId) }

\* C13: a regenerate called with preferences and catalog loaded, through a
\* callback that has seen the working plan as it is, leaves a plan that
\* generate produces from an empty working plan (no recipe is left out
\* because it was in the discarded plan), of exactly meals_per_week entries
\* when the catalog holds at least that many recipes
C13_RegenerateIsClearThenGenerate ==
    [][ ( /\ RegenerateCalled
          /\ rendered.userPreferences # Null
          /\ rendered.userPreferences = userPreferences
          /\ rendered.recipes = recipes
          /\ rendered.currentMealPlan = currentMealPlan )
        => /\ RecipeIdsOf(currentMealPlan') \in GeneratedFromEmptyPlan
           /\ Len(recipes) >= userPreferences.meals_per_week
                 => Len(currentMealPlan') = userPreferences.meals_per_week ]_vars

\* C14: a generate called while the preferences are absent changes neither
\* the working plan, nor the loading flag, nor the error, nor the initialized
\* flag, and makes no meal plan item
C14_GenerateWithoutPreferencesIsNoOp ==
    [][ ( GenerateCalled /\ userPreferences = Null )
        => UNCHANGED << currentMealPlan, loading, error, initialized,
                        nextMealId >> ]_vars

C14_Witness ==
    /\ lastOp.name = "generate"
    /\ userPreferences = Null
    /\ Len(recipes) > 0
    /\ currentMealPlan # << >>
    /\ ~initialized

\* C15: every entry of the working plan has servings >= 1, whatever the
\* arguments of the operations and the persisted rows
C15_ServingsAtLeastOne ==
    \A i \in DOMAIN currentMealPlan : currentMealPlan[i].servings >= 1

\* a step in which the provider's effect calls generateInitialMealPlan
InitialGeneration ==
    /\ lastOp'.name = "generate"
    /\ rendered' # rendered
    /\ batch' = 1

\* every entry of the plan was installed by a load of saved rows
LoadedFromPersistence(plan) ==
    /\ plan # << >>
    /\ \A k \in DOMAIN plan : plan[k].id[1] = "saved"

\* C35: the generation the provider's effect starts leaves a working plan
\* that a load has installed from the saved rows as it is, and it runs at
\* most once: only while initialized is false, which it never is again
C35_InitialGenerationKeepsLoadedPlan ==
    [][ /\ InitialGeneration
           => /\ ~initialized
              /\ LoadedFromPersistence(currentMealPlan)
                    => currentMealPlan' = currentMealPlan
        /\ initialized => initialized' ]_vars

\* a step in which generateInitialMealPlan runs past its guard, called
\* through a callback or by the provider's effect; rendered' is the render
\* whose values it reads
GenerateRan ==
    /\ lastOp'.name = "generate"
    /\ batch' = batch + 1 \/ InitialGeneration
    /\ rendered'.userPreferences # Null

\* C36: a generate with preferences present replaces the working plan: no
\* entry of the plan held before it remains, and the recipes of the new
\* entries are none of the recipes of the plan that generate read
C36_GenerateReplacesWholesale ==
    [][ GenerateRan
        => /\ \A k \in DOMAIN currentMealPlan', j \in DOMAIN currentMealPlan :
                  currentMealPlan'[k].id # currentMealPlan[j].id
           /\ \A k \in DOMAIN currentMealPlan' :
                  ~Includes(RecipeIdsOf(rendered'.currentMealPlan),
                            currentMealPlan'[k].recipe.id) ]_vars

C36_Witness ==
    /\ lastOp.name = "generate"
    /\ batch > 0
    /\ rendered.userPreferences # Null
    /\ rendered.currentMealPlan # << >>
    /\ currentMealPlan # << >>
    /\ \A k \in DOMAIN currentMealPlan : currentMealPlan[k].id[1] = "meal"

(***************************************************************************)
(* Properties of the week's saved plan (SpecStore, Spec)                   *)
(***************************************************************************)
\* a step that answers the pending call i of this kind with this outcome
Answered(i, op, outcome) ==
    /\ i \in DOMAIN pending
    /\ pending[i].op = op
    /\ pending' = RemoveAt(pending, i)
    /\ lastOp'.name = outcome
    /\ batch' = batch + 1

\* the rows hold the recipe ids, servings and status of the meals, in order
SavedAs(meals, rows) ==
    /\ Len(rows) = Len(meals)
    /\ \A i \in DOMAIN meals :
          /\ rows[i].recipe_id = meals[i].recipe_id
          /\ rows[i].servings = meals[i].servings
          /\ rows[i].status = meals[i].status

\* the plan holds the recipe ids, servings and status of the rows, in order
LoadedAs(rows, plan) ==
    /\ Len(plan) = Len(rows)
    /\ \A i \in DOMAIN rows :
          /\ plan[i].recipe.id = rows[i].recipe_id
          /\ plan[i].servings = rows[i].servings
          /\ plan[i].status = rows[i].status

FreshlyGenerated(plan) ==
    /\ nextMealId' = nextMealId + Len(plan)
    /\ \A k \in DOMAIN plan : plan[k].id = MealId(nextMealId + k - 1)

\* C17: when the fetch of a load returns zero rows while preferences are
\* loaded and the catalog is non-empty, the load ends with a non-empty working
\* plan that generate has just produced
C17_LoadOfNoRowsGenerates ==
    [][ \A i \in DOMAIN pending :
          ( /\ Answered(i, "load", "loaded")
            /\ backend = << >>
            /\ userPreferences # Null
            /\ Len(recipes) > 0 )
          => /\ currentMealPlan' # << >>
             /\ FreshlyGenerated(currentMealPlan') ]_vars

\* C18: when the fetch of a load fails, the load ends with the fetch error
\* in the provider's error state
C18_FailedFetchIsRecorded ==
    [][ \A i \in DOMAIN pending :
          Answered(i, "load", "load failed") => error' # "null" ]_vars

\* a step that answers a pending call with this outcome
AnsweredWith(outcome) ==
    /\ lastOp'.name = outcome
    /\ batch' = batch + 1

\* C19: when the backend fails a save or a status update, the error is in
\* the provider's error state, the loading flag is cleared, the working plan
\* and the saved rows are as they were, and the failed call is not issued
\* again
C19_FailedWriteIsRecordedOnly ==
    [][ ( AnsweredWith("save failed") \/ AnsweredWith("status failed") )
        => /\ error' # "null"
           /\ loading' = FALSE
           /\ UNCHANGED << currentMealPlan, backend >>
           /\ Len(pending') = Len(pending) - 1 ]_vars

C19_Witness ==
    /\ lastOp.name = "save failed"
    /\ error = "save failed"
    /\ ~loading
    /\ currentMealPlan # << >>
    /\ pending = << >>

\* the meals of a replace call carry every entry, with its position as sort
\* order and the one status
CarriesEveryEntry(meals, entries, status) ==
    /\ Len(meals) = Len(entries)
    /\ \A k \in DOMAIN entries :
          /\ meals[k].recipe_id = entries[k].recipe.id
          /\ meals[k].servings = entries[k].servings
          /\ meals[k].sort_order = k - 1
          /\ meals[k].status = status

\* C20: a save issues one replace call that carries every entry of the plan
\* with its position as sort order and the status given, draft when none is
\* given; a successful save leaves the saved rows made of its entries only,
\* whatever was saved before
C20_SaveReplacesWholePlan ==
    [][ /\ AnsweredWith("save")
           => /\ Len(pending') = Len(pending) + 1
              /\ LET call == pending'[Len(pending')]
                 IN  /\ call.op = "save"
                     /\ call.arg = "omitted" => call.status = "draft"
                     /\ call.arg # "omitted" => call.status = call.arg
                     /\ CarriesEveryEntry(call.meals, rendered.currentMealPlan,
                                          call.status)
        /\ \A i \in DOMAIN pending :
              Answered(i, "save", "saved") => SavedAs(pending[i].meals, backend')
      ]_vars

\* a plan of one entry has been saved over the two rows saved before
C20_Witness ==
    /\ lastOp.name = "saved"
    /\ Len(backend) = 1
    /\ backend[1].recipe_id = 3
    /\ backend[1].status = "draft"

\* the working plan holds an entry made of a persisted row
LoadedForWeek == \E k \in DOMAIN currentMealPlan : currentMealPlan[k].id[1] = "saved"

\* C21: the persisted rows of the week all carry one status of draft,
\* confirmed, completed, and so do all entries of a working plan that was
\* loaded for the week, whatever saves, status updates, loads and in-memory
\* edits came before
C21_OneStatusPerWeekPlan ==
    /\ \A i \in DOMAIN backend :
          /\ backend[i].status \in Statuses
          /\ backend[i].status = backend[1].status
    /\ LoadedForWeek =>
          \A k \in DOMAIN currentMealPlan :
              /\ currentMealPlan[k].status \in Statuses
              /\ currentMealPlan[k].status = currentMealPlan[1].status

\* every row carries this status
AllRowsHave(rows, status) == \A k \in DOMAIN rows : rows[k].status = status

\* C22: a successful save leaves every row of the week with the status it was
\* given, draft when none was given, and a successful status update leaves
\* every row with the status it was given, whatever status the rows and the
\* working plan carried before
C22_StatusWrittenAsGiven ==
    [][ \A i \in DOMAIN pending :
          /\ Answered(i, "save", "saved")
                => AllRowsHave(backend',
                       IF pending[i].arg = "omitted" THEN "draft"
                                                     ELSE pending[i].arg)
          /\ Answered(i, "status", "status updated")
                => /\ Len(backend') = Len(backend)
                   /\ AllRowsHave(backend', pending[i].arg) ]_vars

\* a plan loaded from a completed week has been saved without a status: its
\* rows are draft again
C22_Witness ==
    /\ lastOp.name = "saved"
    /\ backend # << >>
    /\ AllRowsHave(backend, "draft")
    /\ LoadedForWeek
    /\ currentMealPlan[1].status = "completed"

\* the rows are the same but for their status
SameButStatus(rows, before) ==
    /\ Len(rows) = Len(before)
    /\ \A k \in DOMAIN before :
          /\ rows[k].id = before[k].id
          /\ rows[k].recipe_id = before[k].recipe_id
          /\ rows[k].servings = before[k].servings

\* C23: updateMealPlanStatus issues one status update and no replace call;
\* neither the call nor its answer changes the working plan, and the answer
\* leaves the recipe id, servings and position of every persisted row as they
\* were
C23_StatusUpdateTouchesStatusOnly ==
    [][ /\ AnsweredWith("status")
           => /\ Len(pending') = Len(pending) + 1
              /\ pending'[Len(pending')].op = "status"
              /\ pending'[Len(pending')].meals = << >>
              /\ UNCHANGED << currentMealPlan, backend >>
        /\ ( AnsweredWith("status updated") \/ AnsweredWith("status failed") )
           => /\ SameButStatus(backend', backend)
              /\ UNCHANGED currentMealPlan ]_vars

\* the status of a loaded week has been updated: the rows are completed, the
\* working plan is the draft plan that was loaded
C23_Witness ==
    /\ lastOp.name = "status updated"
    /\ backend # << >>
    /\ AllRowsHave(backend, "completed")
    /\ LoadedForWeek
    /\ currentMealPlan[1].status = "draft"

\* the calls in flight that write the week's rows
WriteCalls(calls) == SelectSeq(calls, LAMBDA c : c.op \in { "save", "status" })

\* C24: a load, from its call to its answer and through its generate
\* fallback, issues neither a replace call nor a status update and leaves the
\* persisted rows as they were
C24_LoadNeverPersists ==
    [][ ( \/ AnsweredWith("load")
          \/ AnsweredWith("loaded")
          \/ AnsweredWith("load failed") )
        => /\ backend' = backend
           /\ WriteCalls(pending') = WriteCalls(pending) ]_vars

\* a load of a week without rows has ended with a generated plan and the week
\* still has no rows
C24_Witness ==
    /\ lastOp.name = "loaded"
    /\ backend = << >>
    /\ currentMealPlan # << >>
    /\ ~LoadedForWeek
    /\ initialized

(***************************************************************************)
(* Properties of the in-memory edits (SpecEdit)                            *)
(***************************************************************************)
\* the positions of the plan's entries with this id
PositionsOf(plan, mealId) == { k \in DOMAIN plan : plan[k].id = mealId }

\* the plan without its entry at position k
WithoutPosition(plan, k) ==
    [ i \in 1..(Len(plan) - 1) |-> IF i < k THEN plan[i] ELSE plan[i + 1] ]

\* C25: removeMealFromPlan(id) deletes the one entry with that id and keeps
\* the other entries and their order; with an id that is not in the plan it
\* leaves the plan as it is; the getMealById of the render that follows
\* finds nothing for the id
C25_RemoveDeletesExactlyThatEntry ==
    [][ AnsweredWith("remove")
        => LET mealId == lastOp'.mealId
               at == PositionsOf(currentMealPlan, mealId)
           IN  /\ Cardinality(at) <= 1
               /\ at = { } => currentMealPlan' = currentMealPlan
               /\ \A k \in at :
                     currentMealPlan' = WithoutPosition(currentMealPlan, k)
               /\ getMealById(Current', mealId) = Null ]_vars

\* an entry between two others has been removed from a plan of four entries
C25_Witness ==
    /\ lastOp.name = "remove"
    /\ Len(currentMealPlan) = 3
    /\ Len(rendered.currentMealPlan) = 4
    /\ \E k \in 2..3 :
          /\ rendered.currentMealPlan[k].id = lastOp.mealId
          /\ currentMealPlan = WithoutPosition(rendered.currentMealPlan, k)

\* C26: updateMealServings(id, s) sets the servings of the entry with that
\* id to s and changes nothing else: the other entries, every entry's id,
\* recipe and status, and the order stay; with an id that is not in the plan
\* the plan stays as it is
C26_UpdateChangesServingsOfThatEntryOnly ==
    [][ AnsweredWith("update")
        => LET mealId == lastOp'.mealId
               servings == lastOp'.servings
           IN  /\ Len(currentMealPlan') = Len(currentMealPlan)
               /\ \A k \in DOMAIN currentMealPlan :
                     /\ currentMealPlan'[k].id = currentMealPlan[k].id
                     /\ currentMealPlan'[k].recipe = currentMealPlan[k].recipe
                     /\ currentMealPlan'[k].status = currentMealPlan[k].status
                     /\ currentMealPlan'[k].servings =
                           IF currentMealPlan[k].id = mealId
                              THEN servings
                              ELSE currentMealPlan[k].servings
               /\ PositionsOf(currentMealPlan, mealId) = { }
                     => currentMealPlan' = currentMealPlan ]_vars

\* the servings of the second entry of a loaded plan have been updated, and
\* the first entry still has other servings
C26_Witness ==
    /\ lastOp.name = "update"
    /\ LoadedForWeek
    /\ Len(currentMealPlan) >= 2
    /\ Len(rendered.currentMealPlan) = Len(currentMealPlan)
    /\ currentMealPlan[2].id = lastOp.mealId
    /\ currentMealPlan[2].servings = lastOp.servings
    /\ rendered.currentMealPlan[2].servings # lastOp.servings
    /\ currentMealPlan[1].servings # lastOp.servings
    /\ currentMealPlan[1].status \in Statuses

\* the user's serves_per_meal, 0 when there are no preferences
ServesPerMeal(preferences) ==
    IF preferences = Null THEN 0 ELSE preferences.serves_per_meal

\* C27: addMealToPlan of a recipe that is not in the working plan appends
\* exactly one entry at the end and leaves the existing entries as they are;
\* the entry's servings are the servings argument when one is given,
\* otherwise the serves_per_meal of the preferences the provider was rendered
\* with, otherwise the recipe's default servings (1 for a recipe that has
\* none)
C27_AddAppendsOneEntry ==
    [][ ( /\ AnsweredWith("add")
          /\ \A k \in DOMAIN currentMealPlan :
                currentMealPlan[k].recipe.id # lastOp'.recipe )
        => LET last == Len(currentMealPlan) + 1
           IN  /\ Len(currentMealPlan') = last
               /\ SubSeq(currentMealPlan', 1, last - 1) = currentMealPlan
               /\ currentMealPlan'[last].recipe.id = lastOp'.recipe
               /\ currentMealPlan'[last].servings =
                     OrElse(lastOp'.servings,
                         OrElse(ServesPerMeal(rendered.userPreferences),
                             OrElse(currentMealPlan'[last].recipe.default_servings,
                                    1)))
      ]_vars

\* the record getMealPlanForWeek builds of a row's recipe columns
SnapshotRecipe(row) ==
    [ id |-> row.recipe_id,
      name |-> << "name", row.recipe_id >>,
      image_url |-> << "image", row.recipe_id >>,
      total_time |-> 10 * row.recipe_id,
      tagIds |-> << >>,
      prep_time |-> 0,
      cook_time |-> 0,
      default_servings |-> 1 ]

\* C29: a load of a week with rows turns each row, in order, into an entry
\* whose recipe is the record of the catalog the load was called with that
\* has the row's recipe id, or, when that catalog has none, the record built
\* of the row's snapshot with no tags, prep and cook time 0 and default
\* servings 1; no row is left out
C29_RowsAreHydrated ==
    [][ \A i \in DOMAIN pending :
          ( Answered(i, "load", "loaded") /\ backend # << >> )
          => LET catalog == pending[i].closure.recipes
             IN  /\ Len(currentMealPlan') = Len(backend)
                 /\ \A k \in DOMAIN backend :
                       LET live == { r \in Range(catalog) :
                                       r.id = backend[k].recipe_id }
                       IN  /\ currentMealPlan'[k].id = SavedId(backend[k].id)
                           /\ live # { } => currentMealPlan'[k].recipe \in live
                           /\ live = { } =>
                                 currentMealPlan'[k].recipe =
                                     SnapshotRecipe(backend[k]) ]_vars

\* a week has been loaded with the catalog present: its first entry holds
\* the catalog's record, its second the snapshot of a recipe that has left
\* the catalog
C29_Witness ==
    /\ lastOp.name = "loaded"
    /\ Len(currentMealPlan) = 2
    /\ currentMealPlan[1].recipe \in Range(recipes)
    /\ currentMealPlan[2].recipe = SnapshotRecipe(backend[2])
    /\ currentMealPlan[2].recipe.id \notin { r.id : r \in Range(recipes) }

\* the recipe ids of the plan a render holds
PlanRecipeIds(closure) == Range(RecipeIdsOf(closure.currentMealPlan))

\* C28: whatever the preferences (absent, without or with preferred tags),
\* getAvailableRecipes returns no recipe that is in the working plan; with
\* preferred tags it returns the catalog recipes that have a preferred tag
\* and are not in the plan, and only those
C28_AvailableRecipesAreNotInPlan ==
    /\ \A recipe \in Range(getAvailableRecipes(rendered)) :
          recipe.id \notin PlanRecipeIds(rendered)
    /\ ( /\ rendered.userPreferences # Null
         /\ rendered.userPreferences.user_preference_tags # << >> )
       => Range(getAvailableRecipes(rendered)) =
             { recipe \in Range(rendered.recipes) :
                 /\ HasPreferredTag(recipe, rendered.userPreferences)
                 /\ recipe.id \notin PlanRecipeIds(rendered) }

(***************************************************************************)
(* Properties of overlapping backend calls (SpecOverlap)                   *)
(***************************************************************************)
\* C32: the loading flag is set whenever a save, load or status-update call
\* is waiting for the backend, also after another such call, made while it
\* was waiting, has been answered
C32_LoadingWhileCallInFlight == pending # << >> => loading

(***************************************************************************)
(* Properties of the meal-planner screen (SpecScreenIdle, SpecScreen)      *)
(***************************************************************************)
\* a loadMealPlanForWeek call is waiting for the backend
LoadInFlight == \E i \in DOMAIN pending : pending[i].op = "load"

\* C33: with the screen mounted and left alone, loadMealPlanForWeek is
\* called finitely often: from some point on no load is in flight and none
\* is due, whether the week has saved rows or the load falls back to
\* generating (where the fallback stops for want of further meal ids, the
\* run is not counted)
C33_LoadsEventuallyCease ==
    <>[]( \/ ~LoadInFlight /\ ~LoadEffectDue
          \/ backend = << >> /\ nextMealId > MaxMealIds )

\* the render that follows a handleRemoveMeal, nothing else having happened
\* since the render before it
RenderAfterRemove ==
    /\ lastOp.name = "remove"
    /\ batch = 1
    /\ lastOp'.name \in { "load", "generate" }

\* C34: the entries of selectedMeals that a handleRemoveMeal has left,
\* among them the meals added with handleAddMeal and the servings set
\* with handleServingsChange, are still in selectedMeals after the render
\* that follows it
C34_LocalEditsSurviveRemove ==
    [][ RenderAfterRemove
        => \A k \in DOMAIN screen.selectedMeals :
              \E j \in DOMAIN screen'.selectedMeals :
                  screen'.selectedMeals[j] = screen.selectedMeals[k] ]_vars

(***************************************************************************)
(* Properties of the preferences provider (SpecPrefs)                      *)
(***************************************************************************)
\* no fetch of preferences is awaiting an answer, and the effects have run
\* with the session and the state as they are
FetchesCompleted ==
    /\ \A i \in DOMAIN prefsCalls : prefsCalls[i].op # "fetch"
    /\ prefsState.seen = PrefsDeps

\* C37: once the fetches in flight have completed, the preferences are null
\* when nobody is signed in, and otherwise they are null or carry the user
\* id of the session, however sign-in, sign-out, sign-in of another user
\* and the answers to the fetches are interleaved
C37_PreferencesBelongToSessionUser ==
    FetchesCompleted
        => /\ session = 0 => prefsState.preferences = Null
           /\ prefsState.preferences # Null
                 => prefsState.preferences.user_id = session

\* the step ends the updatePreferenceTags call c with this outcome
TagsCallEnded(c, outcome) ==
    /\ c.op = "tags"
    /\ prefsState'.last = outcome
    /\ \E i \in DOMAIN prefsCalls :
          prefsCalls[i] = c /\ prefsCalls' = RemoveAt(prefsCalls, i)

\* the tag ids and priorities of tag rows, and of local preference tags
TagsOfRows(rows) == { << r.tag_id, r.priority >> : r \in rows }

TagIdsOfRows(rows) == { r.tag_id : r \in rows }

LocalTagIds(preferences) ==
    { preferences.user_preference_tags[k].tag_id :
        k \in DOMAIN preferences.user_preference_tags }

\* C38: an updatePreferenceTags call that is alone in flight, made while
\* the local tags were the stored ones, and that fails at one of its backend
\* steps leaves the stored tags of the preferences as they were when it was
\* called, and equal to the local ones; one that succeeds leaves both as
\* the new tag ids, each with its index as priority
C38_TagsReplacedAtomically ==
    [][ \A c \in Range(prefsCalls) :
          ( /\ Len(prefsCalls) = 1
            /\ prefsState.preferences # Null
            /\ prefsState.preferences.id = c.prefId
            /\ LocalTagIds(prefsState.preferences) = TagIdsOfRows(c.before) )
          => /\ TagsCallEnded(c, "tags failed")
                  => /\ StoredTags(prefsStore', c.prefId) = c.before
                     /\ LocalTagIds(prefsState'.preferences)
                            = TagIdsOfRows(c.before)
             /\ TagsCallEnded(c, "tags updated")
                  => /\ TagsOfRows(StoredTags(prefsStore', c.prefId))
                            = TagsOfRows(TagInserts(c.prefId, c.tagIds))
                     /\ prefsState'.preferences.user_preference_tags
                            = PreferenceTags(c.tagIds) ]_vars

(***************************************************************************)
(* Properties of the data providers (SpecFetch)                            *)
(***************************************************************************)
\* this step starts a fetch of the provider
FetchIssued(p) == fetch'[p].inFlight = fetch[p].inFlight + 1

\* this step is the failure of a fetch of the provider
FetchFailed(p) ==
    /\ fetch'[p].inFlight = fetch[p].inFlight - 1
    /\ fetch'[p].failed

\* a failed fetch, save or status update is recorded and the loading flag
\* of its provider cleared
FailureIsRecorded ==
    /\ \A p \in Providers :
          FetchFailed(p) => fetch'[p].error /\ ~fetch'[p].loading
    /\ ( AnsweredWith("save failed") \/ AnsweredWith("status failed") )
          => error' # "null" /\ ~loading'

\* a save or status-update call is only made by a call of
\* saveMealPlanForWeek or updateMealPlanStatus
WriteCallsAreInvoked ==
    Len(WriteCalls(pending')) > Len(WriteCalls(pending))
        => lastOp'.name \in { "save", "status" } /\ batch' = batch + 1

RecPath == RecommendationPath(recCall.recipes, recCall.preferences)

\* the catalog's recipe ids that are not in excludeRecipeIds
NonExcludedIds ==
    { recCall.recipes[i].id : i \in DOMAIN recCall.recipes }
        \ Range(recCall.options.excludeRecipeIds)

\* the score the call gives the catalog recipe with this id
ScoreInCall(id) ==
    LET r == CHOOSE x \in Range(recCall.recipes) : x.id = id
    IN  scoreRecipe(r, recCall.preferences, recCall.tags,
            [ recentRecipeIds |-> recCall.options.recentRecipeIds,
              currentMealPlanRecipeIds |-> OptionsOf(recCall).currentMealPlanRecipeIds ],
            recCall.config).score

\* C3: getRecommendations returns at most count recipes and no recipe id
\* twice, on the scored path and on the random path, whatever count is
\* relative to the catalog size.
C3_AtMostCountNoDuplicates ==
    recDone =>
        /\ Len(recResult) <= recCall.options.count
        /\ Distinct(Ids(recResult))

C3_Witness ==
    /\ recDone
    /\ RecPath = "scored"
    /\ recCall.options.count > 0
    /\ Len(recCandidates) > recCall.options.count
    /\ Len(recResult) = recCall.options.count

\* C4: a recipe whose id is in excludeRecipeIds is neither scored nor
\* returned, on either path, and the candidates that remain are exactly the
\* catalog minus the exclusions, in catalog order.
C4_ExcludedNeverScoredNorReturned ==
    recDone =>
        /\ \A x \in Range(recCall.options.excludeRecipeIds) :
              /\ x \notin Range(recScored)
              /\ x \notin Range(Ids(recResult))
        /\ RecPath # "empty" =>
              /\ Range(recCandidates) = NonExcludedIds
              /\ \A i, j \in DOMAIN recCandidates :
                    i < j => recCandidates[i] < recCandidates[j]
        /\ RecPath = "scored" => recScored = recCandidates

C4_Witness ==
    /\ recDone
    /\ RecPath = "scored"
    /\ Len(recCall.options.excludeRecipeIds) = 2
    /\ Len(recCandidates) = NRecipes - 2
    /\ Len(recResult) = 1

\* C5: the scored path returns the first min(count, n) of the n ranked
\* candidates in descending order up to near-ties: a recipe never precedes
\* one that outscores it by 0.01 or more, and no omitted candidate outscores
\* a returned one by 0.01 or more, for every configuration of the weights.
C5_RankedDescendingUpToNearTies ==
    (recDone /\ RecPath = "scored") =>
        /\ Len(recResult) = Min(recCall.options.count, Len(recRanked))
        /\ Range(Ids(recResult)) \subseteq Range(recRanked)
        /\ \A i, j \in DOMAIN recResult :
              i < j => recResult[j].score - recResult[i].score < TieThreshold
        /\ \A o \in Range(recRanked) \ Range(Ids(recResult)) :
              \A i \in DOMAIN recResult :
                  ScoreInCall(o) - recResult[i].score < TieThreshold

\* C6: under the default configuration the minimum-score step filters
\* nothing: every non-excluded recipe reaches the ranking step.
C6_DefaultThresholdFiltersNothing ==
    (recDone /\ RecPath = "scored" /\ recCall.config = DEFAULT_CONFIG) =>
        recRanked = recCandidates

\* C10: with neither preferred tags nor goals the call scores nothing and
\* returns min(count, number of non-excluded recipes) distinct non-excluded
\* catalog recipes, each with score 0, an all-zero breakdown and empty
\* matched-tag and matched-goal lists.
C10_FallbackReturnsZeroScoredSample ==
    (recDone /\ RecPath = "random") =>
        /\ recScored = << >>
        /\ Len(recResult) = Min(recCall.options.count, Cardinality(NonExcludedIds))
        /\ Distinct(Ids(recResult))
        /\ Range(Ids(recResult)) \subseteq NonExcludedIds
        /\ \A i \in DOMAIN recResult :
              /\ recResult[i].score = 0
              /\ recResult[i].scoreBreakdown =
                    [ preferenceTagMatches |-> 0, goalAlignment |-> 0,
                      diversityBonus |-> 0, recencyPenalty |-> 0, total |-> 0 ]
              /\ recResult[i].matchedTagIds = << >>
              /\ recResult[i].matchedGoals = << >>

C10_Witness ==
    /\ recDone
    /\ RecPath = "random"
    /\ recCall.options.recentRecipeIds = << 1 >>
    /\ Len(recResult) = 2
    /\ recResult[1].id = 1
    /\ recCall.options.count = 2

\* the catalog recipes of the call that are already planned
PlannedRecipes ==
    { r \in Range(recCall.recipes) :
        Includes(OptionsOf(recCall).currentMealPlanRecipeIds, r.id) }

\* the tag ids of a recipe whose type is one of the configured diversity types
DiversityTagIds(recipe) ==
    { t \in Range(recipe.tagIds) :
        \E i \in DOMAIN recCall.tags :
            /\ recCall.tags[i].id = t
            /\ Includes(recCall.config.diversityTagTypes, recCall.tags[i].type) }

\* the diversity tags a recipe shares with the planned recipes
SharedDiversityTagIds(recipe) ==
    { t \in DiversityTagIds(recipe) :
        \E p \in PlannedRecipes : t \in DiversityTagIds(p) }

\* the diversity bonus the call gives a catalog recipe
DiversityBonusInCall(recipe) ==
    scoreRecipe(recipe, recCall.preferences, recCall.tags,
        [ recentRecipeIds |-> recCall.options.recentRecipeIds,
          currentMealPlanRecipeIds |-> OptionsOf(recCall).currentMealPlanRecipeIds ],
        recCall.config).scoreBreakdown.diversityBonus

\* the catalog recipes the call has scored
ScoredRecipesOfCall ==
    { r \in Range(recCall.recipes) : Includes(recScored, r.id) }

\* C11: the diversity bonus is 0 when the current plan is empty; for a
\* non-empty plan, of two scored recipes the one sharing more tags of the
\* configured diversity types with the planned recipes never gets the larger
\* bonus, and a recipe all of whose diversity tags are shared gets less than
\* one that shares none
C11_DiversityBonusFallsWithOverlap ==
    recDone =>
        \A a \in ScoredRecipesOfCall :
            /\ Len(OptionsOf(recCall).currentMealPlanRecipeIds) = 0
                  => DiversityBonusInCall(a) = 0
            /\ \A b \in ScoredRecipesOfCall :
                  /\ Cardinality(SharedDiversityTagIds(a))
                        > Cardinality(SharedDiversityTagIds(b))
                        => DiversityBonusInCall(a) <= DiversityBonusInCall(b)
                  /\ ( /\ DiversityTagIds(a) # { }
                       /\ SharedDiversityTagIds(a) = DiversityTagIds(a)
                       /\ SharedDiversityTagIds(b) = { } )
                        => DiversityBonusInCall(a) < DiversityBonusInCall(b)

\* C31: on the fallback path every sample the call can return (every
\* selection of count recipes of the filtered catalog, in every order) is
\* returned with the same probability
C31_FallbackSampleIsUniform ==
    (recDone /\ RecPath = "random") =>
        LET filtered == FilterExcluded(recCall.recipes,
                                       recCall.options.excludeRecipeIds)
            count == recCall.options.count
        IN  \A a, b \in getRandomRecommendations(recCall.recipes, count,
                             recCall.options.excludeRecipeIds) :
                SampleWeight(filtered, count, a) = SampleWeight(filtered, count, b)

(***************************************************************************)
(* Properties of scoreRecipe (SpecScore)                                   *)
(***************************************************************************)
\* the 1-based positions of the goals of which the recipe has a tag
MatchedGoalPositions ==
    { i \in DOMAIN scoreCall.preferences.user_goals :
        \E k \in DOMAIN scoreCall.tags :
            /\ Includes(scoreCall.recipe.tagIds, scoreCall.tags[k].id)
            /\ scoreCall.tags[k].type = scoreCall.preferences.user_goals[i] }

\* the sum over the 1-based positions P of (n - (i - 1)) * weight
RECURSIVE SumOfPriorities(_, _, _)
SumOfPriorities(P, n, weight) ==
    IF P = {} THEN 0
    ELSE LET i == CHOOSE x \in P : TRUE
         IN  (n - (i - 1)) * weight + SumOfPriorities(P \ {i}, n, weight)

\* the goal-alignment term of the call's recipe with other tag ids
GoalAlignmentWithTagIds(tagIds) ==
    scoreRecipe([ scoreCall.recipe EXCEPT !.tagIds = tagIds ],
                scoreCall.preferences, scoreCall.tags, scoreCall.context,
                scoreCall.config).scoreBreakdown.goalAlignment

\* C7: the goal at 0-based position i of n goals contributes (n - i) times
\* the goal weight when the recipe has a tag of its type, contributions add
\* up without a cap, and with goals [time, budget] a recipe matching only
\* time has a strictly higher goal-alignment term than one matching only
\* budget.
C7_GoalAlignmentByPriority ==
    scoreFirst # Null =>
        /\ scoreFirst.scoreBreakdown.goalAlignment =
              SumOfPriorities(MatchedGoalPositions,
                              Len(scoreCall.preferences.user_goals),
                              scoreCall.config.weights.goalAlignment)
        /\ scoreFirst.matchedGoals =
              SelectSeq(scoreCall.preferences.user_goals,
                  LAMBDA g : \E i \in MatchedGoalPositions :
                                 scoreCall.preferences.user_goals[i] = g)
        /\ ( /\ scoreCall.preferences.user_goals = << "time", "budget" >>
             /\ scoreCall.tags = TagList
             /\ scoreCall.recipe.tagIds = << 1 >> )
           => scoreFirst.scoreBreakdown.goalAlignment
                  > GoalAlignmentWithTagIds(<< 2 >>)

C7_Witness ==
    /\ scoreFirst # Null
    /\ scoreCall.preferences.user_goals = << "time", "budget" >>
    /\ scoreCall.tags = TagList
    /\ scoreCall.recipe.tagIds = << 1 >>
    /\ scoreFirst.scoreBreakdown.goalAlignment = 4000
    /\ GoalAlignmentWithTagIds(<< 2 >>) = 2000
    /\ GoalAlignmentWithTagIds(<< 1, 2 >>) = 6000

\* C8: under the default weights, adding one preferred tag id to the recipe
\* never decreases its total score, all other inputs unchanged.
C8_PreferredTagNeverDecreasesScore ==
    (scoreAdded # Null /\ scoreCall.config = DEFAULT_CONFIG) =>
        scoreAdded.score >= scoreFirst.score

C8_Witness ==
    /\ scoreAdded # Null
    /\ scoreCall.config = DEFAULT_CONFIG
    /\ scoreCall.recipe.tagIds = << >>
    /\ Len(scoreCall.context.currentMealPlanRecipeIds) > 0
    /\ scoreAdded.score = scoreFirst.score + 1500

====
